---- MODULE Spec2Model ----
(***************************************************************************)
(* prompt-opt: scene classifier, LLM gateway, command and evaluation log    *)
(* store with its readers, and prompt version store.                       *)
(*                                                                         *)
(* Text is a sequence of UTF-16 code units, as a JavaScript string is, so  *)
(* that String.prototype.includes is a real substring test.  Fractions     *)
(* such as maxScore / 3 are pairs <<numerator, denominator>>.              *)
(***************************************************************************)
EXTENDS Integers, Sequences, FiniteSets, TLC

VARIABLES
  content,        \* the text handed to the classifier
  nPieces,        \* how many pieces the text was assembled from
  libResult,      \* <<>> or <<r>>: what detectScene(content) returned
  engineResult,   \* <<>> or <<r>>: what detect({content}) returned
  env,            \* process.env: the names of the variables that are set
  gwPc,           \* position of the gateway invocation in progress
  gwCall,         \* its implementation, operation and model key
  gwTimer,        \* the setTimeout timer: unset, armed, cleared or fired
  gwRequests,     \* HTTP requests the invocation has issued
  gwOutstanding,  \* HTTP requests in flight
  gwBody,         \* shape of the 2xx body the invocation received
  gwOutcome,      \* what the invocation returned or threw
  logNow,         \* the wall clock the Logger reads
  currentLog,     \* Logger.currentLog: <<>> (null) or <<entry>>
  startTime,      \* Logger.startTime
  commandFiles,   \* logs/commands: the lines of <command>_<date>.jsonl
  opened,         \* how many entries start() has opened so far
  evaluationFiles,\* logs/evaluations: the lines of <date>.jsonl
  logResult,      \* <<>> or <<r>>: the last call on the Logger, with its
                  \* arguments and the value it returned
  evalPc,         \* position of the evaluate command in progress
  evalScene,      \* its detectedScene
  evalOutcome,    \* how each evaluate invocation so far ended
  promptDirs,     \* prompts/: the scene directories that exist
  promptFiles,    \* prompts/<scene>/: file name -> content
  promptIndex,    \* prompts/_meta/index.json: <<>> (no file) or <<index>>
  saver,          \* each CLI process inside or outside savePromptVersion
  saveHistory,    \* the saves that returned, in the order they returned
  versionResult,  \* <<>> or <<r>>: the last call on the version store
  tasks,          \* taskQueue: the Map from task id to task
  taskNow,        \* the wall clock the API server reads, in milliseconds
  taskSeq,        \* how many tasks were created so far
  execPc,         \* each executeTask call: "awaiting" or "settled"
  trail,          \* the statuses the map has held for each id, in order
  response,       \* <<>> or <<r>>: the last HTTP response, or the value
                  \* the last direct call on the queue returned
  locks,          \* storage: the Map from resolved path to 0 or 1
  ops,            \* the Storage operations called, each at its await
  storageNow,     \* the wall clock acquireLock reads, in milliseconds
  storageOptions, \* the options the Storage object was constructed with
  cliHistory,     \* the CLI invocations so far: command, outcome, entry id
  suggestLogs,    \* the logs handed to generateClaudeSuggestions
  suggestion,     \* <<>> or <<r>>: the worstCmd and worstRate it arrived at
  outputFile      \* <<>> or <<text>>: the file version download writes

detectVars == <<content, nPieces, libResult, engineResult>>
gatewayVars ==
  <<env, gwPc, gwCall, gwTimer, gwRequests, gwOutstanding, gwBody, gwOutcome>>
loggerVars ==
  <<logNow, currentLog, startTime, commandFiles, opened, evaluationFiles,
    logResult, evalPc, evalScene, evalOutcome>>

versionVars ==
  <<promptDirs, promptFiles, promptIndex, saver, saveHistory, versionResult>>

taskVars == <<tasks, taskNow, taskSeq, execPc, trail, response>>
storageVars == <<locks, ops, storageNow, storageOptions>>
cliVars == <<cliHistory>>
suggestVars == <<suggestLogs, suggestion>>
downloadVars == <<outputFile>>

\* What each component leaves alone.
notDetect ==
  <<gatewayVars, loggerVars, versionVars, taskVars, storageVars,
    cliVars, suggestVars, downloadVars>>
notGateway ==
  <<detectVars, loggerVars, versionVars, taskVars, storageVars,
    cliVars, suggestVars, downloadVars>>
notLogger ==
  <<detectVars, gatewayVars, versionVars, taskVars, storageVars,
    cliVars, suggestVars, downloadVars>>
notVersions ==
  <<detectVars, gatewayVars, loggerVars, taskVars, storageVars,
    cliVars, suggestVars, downloadVars>>
notTasks ==
  <<detectVars, gatewayVars, loggerVars, versionVars, storageVars,
    cliVars, suggestVars, downloadVars>>
notStorage ==
  <<detectVars, gatewayVars, loggerVars, versionVars, taskVars, cliVars,
    suggestVars, downloadVars>>
notCommands ==
  <<detectVars, gatewayVars, versionVars, taskVars, storageVars, suggestVars,
    downloadVars>>
notSuggest ==
  <<detectVars, gatewayVars, loggerVars, versionVars, taskVars, storageVars,
    cliVars, downloadVars>>
notDownload ==
  <<detectVars, gatewayVars, loggerVars, taskVars, storageVars, cliVars,
    suggestVars>>

----------------------------------------------------------------------------
(* Scene Classifier                                                        *)

\* SCENE_KEYWORDS of the CLI library, in declaration order
\* (Object.entries of a literal with string keys iterates in that order).
SCENE_KEYWORDS_lib ==
  <<
    \* 产品周会 | 上周 | 本周 | 需求 | 排期 | 上线 | 迭代 | sprint | feature | roadmap
    [scene |-> "product/weekly", keywords |-> <<
       <<20135,21697,21608,20250>>, <<19978,21608>>, <<26412,21608>>, <<38656,27714>>,
       <<25490,26399>>, <<19978,32447>>, <<36845,20195>>, <<115,112,114,105,110,116>>,
       <<102,101,97,116,117,114,101>>, <<114,111,97,100,109,97,112>>
    >>],
    \* 需求评审 | PRD | 评审 | Story | 用户故事 | 验收标准 | 优先级
    [scene |-> "product/review", keywords |-> <<
       <<38656,27714,35780,23457>>, <<80,82,68>>, <<35780,23457>>, <<83,116,111,114,121>>,
       <<29992,25143,25925,20107>>, <<39564,25910,26631,20934>>, <<20248,20808,32423>>
    >>],
    \* 产品发布 | 发布会 | 新功能 | 亮点 | 演示 | release | launch
    [scene |-> "product/launch", keywords |-> <<
       <<20135,21697,21457,24067>>, <<21457,24067,20250>>, <<26032,21151,33021>>, <<20142,28857>>,
       <<28436,31034>>, <<114,101,108,101,97,115,101>>, <<108,97,117,110,99,104>>
    >>],
    \* 营销周会 | 投放 | 转化 | 曝光 | 活动 | GMV | 业绩
    [scene |-> "marketing/weekly", keywords |-> <<
       <<33829,38144,21608,20250>>, <<25237,25918>>, <<36716,21270>>, <<26333,20809>>,
       <<27963,21160>>, <<71,77,86>>, <<19994,32489>>
    >>],
    \* 策划 | 方案 | 创意 | 目标人群 | 营销活动 | campaign
    [scene |-> "marketing/campaign", keywords |-> <<
       <<31574,21010>>, <<26041,26696>>, <<21019,24847>>, <<30446,26631,20154,32676>>,
       <<33829,38144,27963,21160>>, <<99,97,109,112,97,105,103,110>>
    >>],
    \* 品牌 | 定位 | 差异化 | 价值观 | 品牌策略 | brand
    [scene |-> "marketing/brand", keywords |-> <<
       <<21697,29260>>, <<23450,20301>>, <<24046,24322,21270>>, <<20215,20540,35266>>,
       <<21697,29260,31574,30053>>, <<98,114,97,110,100>>
    >>],
    \* 合作 | 洽谈 | 伙伴 | 渠道 | partnership
    [scene |-> "marketing/partnership", keywords |-> <<
       <<21512,20316>>, <<27965,35848>>, <<20249,20276>>, <<28192,36947>>,
       <<112,97,114,116,110,101,114,115,104,105,112>>
    >>],
    \* 销售会议 | 业绩 | 目标 | 客户 | 签约 | 跟进
    [scene |-> "sales/meeting", keywords |-> <<
       <<38144,21806,20250,35758>>, <<19994,32489>>, <<30446,26631>>, <<23458,25143>>,
       <<31614,32422>>, <<36319,36827>>
    >>],
    \* 谈判 | 报价 | 合同 | 让步 | 签约 | 价格
    [scene |-> "sales/negotiation", keywords |-> <<
       <<35848,21028>>, <<25253,20215>>, <<21512,21516>>, <<35753,27493>>,
       <<31614,32422>>, <<20215,26684>>
    >>],
    \* 渠道 | 经销商 | 代理 | 分销 | channel
    [scene |-> "sales/channel", keywords |-> <<
       <<28192,36947>>, <<32463,38144,21830>>, <<20195,29702>>, <<20998,38144>>,
       <<99,104,97,110,110,101,108>>
    >>],
    \* 战略 | 三年规划 | 愿景 | 竞争 | 格局 | strategy
    [scene |-> "strategy/meeting", keywords |-> <<
       <<25112,30053>>, <<19977,24180,35268,21010>>, <<24895,26223>>, <<31454,20105>>,
       <<26684,23616>>, <<115,116,114,97,116,101,103,121>>
    >>],
    \* 管理层 | 例会 | 经营 | CEO | 总裁 | 高管
    [scene |-> "strategy/management", keywords |-> <<
       <<31649,29702,23618>>, <<20363,20250>>, <<32463,33829>>, <<67,69,79>>,
       <<24635,35009>>, <<39640,31649>>
    >>],
    \* 复盘 | 总结 | 经验 | 教训 | 回顾 | review
    [scene |-> "strategy/review", keywords |-> <<
       <<22797,30424>>, <<24635,32467>>, <<32463,39564>>, <<25945,35757>>,
       <<22238,39038>>, <<114,101,118,105,101,119>>
    >>],
    \* 面试 | 自我介绍 | 项目经历 | 离职原因 | 优势 | 面试官
    [scene |-> "hr/interview", keywords |-> <<
       <<38754,35797>>, <<33258,25105,20171,32461>>, <<39033,30446,32463,21382>>, <<31163,32844,21407,22240>>,
       <<20248,21183>>, <<38754,35797,23448>>
    >>],
    \* 绩效 | 考核 | KPI | 面谈 | 评分
    [scene |-> "hr/performance", keywords |-> <<
       <<32489,25928>>, <<32771,26680>>, <<75,80,73>>, <<38754,35848>>,
       <<35780,20998>>
    >>],
    \* 离职 | 辞职 | 退出 | 面谈 | 交接
    [scene |-> "hr/exit", keywords |-> <<
       <<31163,32844>>, <<36766,32844>>, <<36864,20986>>, <<38754,35848>>,
       <<20132,25509>>
    >>],
    \* 团建 | 团队建设 | 活动 | 聚餐 | team building
    [scene |-> "hr/team", keywords |-> <<
       <<22242,24314>>, <<22242,38431,24314,35774>>, <<27963,21160>>, <<32858,39184>>,
       <<116,101,97,109,32,98,117,105,108,100,105,110,103>>
    >>],
    \* 技术评审 | 架构 | 技术方案 | 可行性 | 风险 | review
    [scene |-> "rd/tech-review", keywords |-> <<
       <<25216,26415,35780,23457>>, <<26550,26500>>, <<25216,26415,26041,26696>>, <<21487,34892,24615>>,
       <<39118,38505>>, <<114,101,118,105,101,119>>
    >>],
    \* 排期 | 计划 | 工期 | 里程碑 | 排期会
    [scene |-> "rd/planning", keywords |-> <<
       <<25490,26399>>, <<35745,21010>>, <<24037,26399>>, <<37324,31243,30865>>,
       <<25490,26399,20250>>
    >>],
    \* 故障 | 问题 | incident | bug | 紧急 | P0 | P1
    [scene |-> "rd/incident", keywords |-> <<
       <<25925,38556>>, <<38382,39064>>, <<105,110,99,105,100,101,110,116>>, <<98,117,103>>,
       <<32039,24613>>, <<80,48>>, <<80,49>>
    >>],
    \* 财务 | 预算 | 成本 | 利润 | 营收 | finance
    [scene |-> "other/finance", keywords |-> <<
       <<36130,21153>>, <<39044,31639>>, <<25104,26412>>, <<21033,28070>>,
       <<33829,25910>>, <<102,105,110,97,110,99,101>>
    >>],
    \* 法务 | 合规 | 合同 | 法律 | legal | compliance
    [scene |-> "other/legal", keywords |-> <<
       <<27861,21153>>, <<21512,35268>>, <<21512,21516>>, <<27861,24459>>,
       <<108,101,103,97,108>>, <<99,111,109,112,108,105,97,110,99,101>>
    >>]
  >>

\* SCENE_KEYWORDS of the engine package; it differs from the library's table
\* in hr/interview only.
SCENE_KEYWORDS_engine ==
  <<
    \* 产品周会 | 上周 | 本周 | 需求 | 排期 | 上线 | 迭代 | sprint | feature | roadmap
    [scene |-> "product/weekly", keywords |-> <<
       <<20135,21697,21608,20250>>, <<19978,21608>>, <<26412,21608>>, <<38656,27714>>,
       <<25490,26399>>, <<19978,32447>>, <<36845,20195>>, <<115,112,114,105,110,116>>,
       <<102,101,97,116,117,114,101>>, <<114,111,97,100,109,97,112>>
    >>],
    \* 需求评审 | PRD | 评审 | Story | 用户故事 | 验收标准 | 优先级
    [scene |-> "product/review", keywords |-> <<
       <<38656,27714,35780,23457>>, <<80,82,68>>, <<35780,23457>>, <<83,116,111,114,121>>,
       <<29992,25143,25925,20107>>, <<39564,25910,26631,20934>>, <<20248,20808,32423>>
    >>],
    \* 产品发布 | 发布会 | 新功能 | 亮点 | 演示 | release | launch
    [scene |-> "product/launch", keywords |-> <<
       <<20135,21697,21457,24067>>, <<21457,24067,20250>>, <<26032,21151,33021>>, <<20142,28857>>,
       <<28436,31034>>, <<114,101,108,101,97,115,101>>, <<108,97,117,110,99,104>>
    >>],
    \* 营销周会 | 投放 | 转化 | 曝光 | 活动 | GMV | 业绩
    [scene |-> "marketing/weekly", keywords |-> <<
       <<33829,38144,21608,20250>>, <<25237,25918>>, <<36716,21270>>, <<26333,20809>>,
       <<27963,21160>>, <<71,77,86>>, <<19994,32489>>
    >>],
    \* 策划 | 方案 | 创意 | 目标人群 | 营销活动 | campaign
    [scene |-> "marketing/campaign", keywords |-> <<
       <<31574,21010>>, <<26041,26696>>, <<21019,24847>>, <<30446,26631,20154,32676>>,
       <<33829,38144,27963,21160>>, <<99,97,109,112,97,105,103,110>>
    >>],
    \* 品牌 | 定位 | 差异化 | 价值观 | 品牌策略 | brand
    [scene |-> "marketing/brand", keywords |-> <<
       <<21697,29260>>, <<23450,20301>>, <<24046,24322,21270>>, <<20215,20540,35266>>,
       <<21697,29260,31574,30053>>, <<98,114,97,110,100>>
    >>],
    \* 合作 | 洽谈 | 伙伴 | 渠道 | partnership
    [scene |-> "marketing/partnership", keywords |-> <<
       <<21512,20316>>, <<27965,35848>>, <<20249,20276>>, <<28192,36947>>,
       <<112,97,114,116,110,101,114,115,104,105,112>>
    >>],
    \* 销售会议 | 业绩 | 目标 | 客户 | 签约 | 跟进
    [scene |-> "sales/meeting", keywords |-> <<
       <<38144,21806,20250,35758>>, <<19994,32489>>, <<30446,26631>>, <<23458,25143>>,
       <<31614,32422>>, <<36319,36827>>
    >>],
    \* 谈判 | 报价 | 合同 | 让步 | 签约 | 价格
    [scene |-> "sales/negotiation", keywords |-> <<
       <<35848,21028>>, <<25253,20215>>, <<21512,21516>>, <<35753,27493>>,
       <<31614,32422>>, <<20215,26684>>
    >>],
    \* 渠道 | 经销商 | 代理 | 分销 | channel
    [scene |-> "sales/channel", keywords |-> <<
       <<28192,36947>>, <<32463,38144,21830>>, <<20195,29702>>, <<20998,38144>>,
       <<99,104,97,110,110,101,108>>
    >>],
    \* 战略 | 三年规划 | 愿景 | 竞争 | 格局 | strategy
    [scene |-> "strategy/meeting", keywords |-> <<
       <<25112,30053>>, <<19977,24180,35268,21010>>, <<24895,26223>>, <<31454,20105>>,
       <<26684,23616>>, <<115,116,114,97,116,101,103,121>>
    >>],
    \* 管理层 | 例会 | 经营 | CEO | 总裁 | 高管
    [scene |-> "strategy/management", keywords |-> <<
       <<31649,29702,23618>>, <<20363,20250>>, <<32463,33829>>, <<67,69,79>>,
       <<24635,35009>>, <<39640,31649>>
    >>],
    \* 复盘 | 总结 | 经验 | 教训 | 回顾 | review
    [scene |-> "strategy/review", keywords |-> <<
       <<22797,30424>>, <<24635,32467>>, <<32463,39564>>, <<25945,35757>>,
       <<22238,39038>>, <<114,101,118,105,101,119>>
    >>],
    \* 面试 | 自我介绍 | 项目经历 | 离职 | 优势 | 面试官 | 薪资 | 到岗 | 薪酬 | 工资 | 期望 | 岗位 | ...
    [scene |-> "hr/interview", keywords |-> <<
       <<38754,35797>>, <<33258,25105,20171,32461>>, <<39033,30446,32463,21382>>, <<31163,32844>>,
       <<20248,21183>>, <<38754,35797,23448>>, <<34218,36164>>, <<21040,23703>>,
       <<34218,37228>>, <<24037,36164>>, <<26399,26395>>, <<23703,20301>>,
       <<20837,32844>>, <<111,102,102,101,114>>, <<24405,29992>>, <<25307,32856>>,
       <<27714,32844,32773>>, <<24037,20316,32463,39564>>, <<25216,33021,29305,38271>>, <<32844,19994,35268,21010>>,
       <<24453,36935>>, <<34218,27700>>, <<22870,37329>>, <<31119,21033>>,
       <<32423,21035>>, <<24212,32856>>, <<32844,20301>>, <<22797,35797>>,
       <<32456,38754>>, <<31508,35797>>, <<21021,35797>>, <<20154,21147>>,
       <<27807,36890>>, <<21152,29677>>, <<21452,20241>>, <<21313,19977,34218>>,
       <<32929,31080>>, <<26399,26435>>
    >>],
    \* 绩效 | 考核 | KPI | 面谈 | 评分
    [scene |-> "hr/performance", keywords |-> <<
       <<32489,25928>>, <<32771,26680>>, <<75,80,73>>, <<38754,35848>>,
       <<35780,20998>>
    >>],
    \* 离职 | 辞职 | 退出 | 面谈 | 交接
    [scene |-> "hr/exit", keywords |-> <<
       <<31163,32844>>, <<36766,32844>>, <<36864,20986>>, <<38754,35848>>,
       <<20132,25509>>
    >>],
    \* 团建 | 团队建设 | 活动 | 聚餐 | team building
    [scene |-> "hr/team", keywords |-> <<
       <<22242,24314>>, <<22242,38431,24314,35774>>, <<27963,21160>>, <<32858,39184>>,
       <<116,101,97,109,32,98,117,105,108,100,105,110,103>>
    >>],
    \* 技术评审 | 架构 | 技术方案 | 可行性 | 风险 | review
    [scene |-> "rd/tech-review", keywords |-> <<
       <<25216,26415,35780,23457>>, <<26550,26500>>, <<25216,26415,26041,26696>>, <<21487,34892,24615>>,
       <<39118,38505>>, <<114,101,118,105,101,119>>
    >>],
    \* 排期 | 计划 | 工期 | 里程碑 | 排期会
    [scene |-> "rd/planning", keywords |-> <<
       <<25490,26399>>, <<35745,21010>>, <<24037,26399>>, <<37324,31243,30865>>,
       <<25490,26399,20250>>
    >>],
    \* 故障 | 问题 | incident | bug | 紧急 | P0 | P1
    [scene |-> "rd/incident", keywords |-> <<
       <<25925,38556>>, <<38382,39064>>, <<105,110,99,105,100,101,110,116>>, <<98,117,103>>,
       <<32039,24613>>, <<80,48>>, <<80,49>>
    >>],
    \* 财务 | 预算 | 成本 | 利润 | 营收 | finance
    [scene |-> "other/finance", keywords |-> <<
       <<36130,21153>>, <<39044,31639>>, <<25104,26412>>, <<21033,28070>>,
       <<33829,25910>>, <<102,105,110,97,110,99,101>>
    >>],
    \* 法务 | 合规 | 合同 | 法律 | legal | compliance
    [scene |-> "other/legal", keywords |-> <<
       <<27861,21153>>, <<21512,35268>>, <<21512,21516>>, <<27861,24459>>,
       <<108,101,103,97,108>>, <<99,111,109,112,108,105,97,110,99,101>>
    >>]
  >>

\* String.prototype.includes: kw occurs in text as a contiguous run.
Includes(text, kw) ==
  \E i \in 0..(Len(text) - Len(kw)) :
     \A j \in 1..Len(kw) : text[i + j] = kw[j]

\* The divisor of "maxScore / 3".
ScoreDivisor == 3

\* The cap of "bestKeywords.slice(0, 5)".
MaxKeywords == 5

\* The literal 0.3, used as floor of the confidence and as fallback threshold.
LowConfidence == <<3, 10>>

\* Fractions a = <<n, d>> with d > 0.
RatLess(a, b) == a[1] * b[2] < b[1] * a[2]
RatEq(a, b) == a[1] * b[2] = b[1] * a[2]

\* Math.min
MathMin(a, b) == IF RatLess(a, b) THEN a ELSE b

\* Array.prototype.slice(0, n)
Slice0(s, n) == SubSeq(s, 1, IF Len(s) < n THEN Len(s) ELSE n)

\* How often kw occurs in text.
Occurrences(text, kw) ==
  Cardinality({i \in 0..(Len(text) - Len(kw)) :
                 \A j \in 1..Len(kw) : text[i + j] = kw[j]})

RECURSIVE SumOccurrences(_, _, _)
SumOccurrences(keywords, text, i) ==
  IF i > Len(keywords) THEN 0
  ELSE Occurrences(text, keywords[i]) + SumOccurrences(keywords, text, i + 1)

\* The inner loop of step 1: one point per entry of the keyword list that
\* occurs in the text, whatever the number of its occurrences.
ScoreOfMutant(keywords, text) == SumOccurrences(keywords, text, 1)
ScoreOf(keywords, text) ==
  Cardinality({i \in 1..Len(keywords) : Includes(text, keywords[i])})

\* foundKeywords[scene]: the matched keywords, in declaration order.
FoundKeywords(keywords, text) ==
  SelectSeq(keywords, LAMBDA k : Includes(text, k))

\* scores: Record<string, number>, one entry per declared scene.
AllScores(table, text) ==
  [s \in {table[i].scene : i \in 1..Len(table)} |->
     LET i == CHOOSE k \in 1..Len(table) : table[k].scene = s
     IN  ScoreOf(table[i].keywords, text)]

\* The comparison of step 2 in the library: a later scene replaces the best
\* one only when it scores strictly more.
LibBetterMutant(score, maxScore) == score >= maxScore
LibBetter(score, maxScore) == score > maxScore

\* The comparison of step 2 in the engine: a later scene replaces the best
\* one also when it scores the same.
EngineBetter(score, maxScore) == score >= maxScore

\* Step 2 of detectScene: the loop over Object.entries(scores), from the
\* i-th entry on, carrying maxScore / bestScene / bestKeywords.
RECURSIVE LibBest(_, _, _)
LibBest(text, i, best) ==
  IF i > Len(SCENE_KEYWORDS_lib) THEN best
  ELSE LET e == SCENE_KEYWORDS_lib[i]
           score == ScoreOf(e.keywords, text)
       IN  IF LibBetter(score, best.maxScore)
           THEN LibBest(text, i + 1,
                  [maxScore |-> score, bestScene |-> e.scene,
                   bestKeywords |-> FoundKeywords(e.keywords, text)])
           ELSE LibBest(text, i + 1, best)

\* Step 2 of the engine's detect.
RECURSIVE EngineBest(_, _, _)
EngineBest(text, i, best) ==
  IF i > Len(SCENE_KEYWORDS_engine) THEN best
  ELSE LET e == SCENE_KEYWORDS_engine[i]
           score == ScoreOf(e.keywords, text)
       IN  IF EngineBetter(score, best.maxScore)
           THEN EngineBest(text, i + 1,
                  [maxScore |-> score, bestScene |-> e.scene,
                   bestKeywords |-> FoundKeywords(e.keywords, text)])
           ELSE EngineBest(text, i + 1, best)

\* let maxScore = 0; let bestScene = 'other/finance'; let bestKeywords = [];
InitialBest ==
  [maxScore |-> 0, bestScene |-> "other/finance", bestKeywords |-> <<>>]

\* Step 3: maxScore > 0 ? Math.min(maxScore / 3, 1) : 0.3
ConfidenceOfMutant(maxScore) == MathMin(<<maxScore, ScoreDivisor>>, <<1, 1>>)
ConfidenceOf(maxScore) ==
  IF maxScore > 0 THEN MathMin(<<maxScore, ScoreDivisor>>, <<1, 1>>)
  ELSE LowConfidence

\* The synthetic keyword list of the fallback, ['会议'].
FallbackKeywords == << <<20250, 35758>> >>

\* Steps 3, 4 and the return statement, shared by both implementations.
FinishMutant(best, scores) ==
  LET confidence == ConfidenceOf(best.maxScore)
      low == RatLess(confidence, LowConfidence)
  IN  [scene |-> IF low THEN "product/weekly" ELSE best.bestScene,
       confidence |-> confidence,
       keywords |-> IF low THEN FallbackKeywords ELSE best.bestKeywords,
       allScores |-> scores]
Finish(best, scores) ==
  LET confidence == ConfidenceOf(best.maxScore)
      low == RatLess(confidence, LowConfidence)
  IN  [scene |-> IF low THEN "product/weekly" ELSE best.bestScene,
       confidence |-> confidence,
       keywords |-> Slice0(IF low THEN FallbackKeywords ELSE best.bestKeywords,
                           MaxKeywords),
       allScores |-> scores]

\* detectScene(content) of the CLI library.
detectScene(text) ==
  Finish(LibBest(text, 1, InitialBest), AllScores(SCENE_KEYWORDS_lib, text))

\* detect({content}) of the engine package.
detect(text) ==
  Finish(EngineBest(text, 1, InitialBest), AllScores(SCENE_KEYWORDS_engine, text))

----------------------------------------------------------------------------
(* The classifier's inputs: texts assembled from a small vocabulary.       *)

\* How many vocabulary pieces a text is assembled from, at most.
MaxPieces == 2

\* The vocabulary: the specification's sample transcript (four keywords of
\* product/weekly), two more keywords of that scene, keywords that join
\* into a longer keyword of their scene, a keyword two scenes share, a
\* keyword only the engine's table gives to a second scene, and a word
\* that is no keyword at all.
Vocabulary ==
  { <<20135,21697,21608,20250,32,26412,21608,32,38656,27714,32,25490,26399>>,   \* 产品周会 本周 需求 排期
    <<19978,32447,36845,20195>>,   \* 上线迭代
    <<35780,23457>>,   \* 评审
    <<38656,27714>>,   \* 需求
    <<35780,23457,38656,27714>>,   \* 评审需求
    <<28192,36947>>,   \* 渠道
    <<31163,32844>>,   \* 离职
    <<20250,35758>> }   \* 会议

DetectInit ==
  /\ content = <<>>
  /\ nPieces = 0
  /\ libResult = <<>>
  /\ engineResult = <<>>

\* The caller extends the transcript; earlier results are about another text.
AppendPiece(p) ==
  /\ nPieces < MaxPieces
  /\ content' = content \o p
  /\ nPieces' = nPieces + 1
  /\ libResult' = <<>>
  /\ engineResult' = <<>>
  /\ UNCHANGED notDetect

\* const result = await detectScene(content)
CallDetectScene ==
  /\ libResult = <<>>
  /\ libResult' = <<detectScene(content)>>
  /\ UNCHANGED <<content, nPieces, engineResult, notDetect>>

\* const result = detect({ content })
CallDetect ==
  /\ engineResult = <<>>
  /\ engineResult' = <<detect(content)>>
  /\ UNCHANGED <<content, nPieces, libResult, notDetect>>

DetectNext ==
  \/ \E p \in Vocabulary : AppendPiece(p)
  \/ CallDetectScene
  \/ CallDetect

----------------------------------------------------------------------------
(* LLM Gateway                                                             *)
(*                                                                         *)
(* One invocation of generate / evaluate / optimize at a time, in the      *)
(* engine package (callLLM) or in the CLI library (generateSummary,        *)
(* evaluateSummary, optimizePrompt).  gwPc is the invocation's position:   *)
(* the await points are "fetching" (await fetch), "readingErrorBody"       *)
(* (await response.text()) and "readingJson" (await response.json()).      *)

\* MODELS: the provider registry; both copies hold the same three entries.
MODELS ==
  [k \in {"qwen-max", "deepseek-v3", "doubao"} |->
     [apiKeyEnv |-> CASE k = "qwen-max" -> "DASHSCOPE_API_KEY"
                      [] k = "deepseek-v3" -> "DEEPSEEK_API_KEY"
                      [] k = "doubao" -> "DOUBAO_API_KEY",
      hasEndpoint |-> TRUE]]

\* Names every object literal inherits from Object.prototype: MODELS[k] is
\* a truthy value for them (a function), with no apiKeyEnv and no endpoint.
ObjectPrototypeKeys == {"constructor"}

\* The model keys callers pass: the registered ones, one that is simply
\* unknown and one that names an inherited property.
ModelKeyInputs == DOMAIN MODELS \cup {"gpt-9"} \cup ObjectPrototypeKeys

\* process.env: the variables that may be set.  undefined.toString() is the
\* name process.env[undefined] reads.
EnvNames ==
  {"DASHSCOPE_API_KEY", "DEEPSEEK_API_KEY", "DOUBAO_API_KEY", "undefined"}

Impls == {"engine", "lib"}
Ops == {"generate", "evaluate", "optimize"}

\* What a 2xx response body may hold.
\*   notJson       the body is no JSON document
\*   null          the JSON value null
\*   noChoices     an object without "choices"
\*   emptyChoices  "choices": []
\*   noMessage     "choices": [{}]
\*   noContent     "choices": [{"message": {}}]
\*   text          content is a string that is no JSON document
\*   jsonText      content is a string holding a JSON object
BodyShapes ==
  {"notJson", "null", "noChoices", "emptyChoices", "noMessage", "noContent",
   "text", "jsonText"}

\* The shapes that lack choices[0].message.content.
LacksContent == {"null", "noChoices", "emptyChoices", "noMessage", "noContent"}

NoOutcome == [kind |-> "none", error |-> "none", listsSupported |-> FALSE,
              content |-> "none"]
Threw(e) == [kind |-> "error", error |-> e, listsSupported |-> FALSE,
             content |-> "none"]
Returned(c) == [kind |-> "ok", error |-> "none", listsSupported |-> FALSE,
                content |-> c]

\* MODELS[modelKey]: an own entry, an inherited property, or undefined.
LookupModel(modelKey) ==
  IF modelKey \in DOMAIN MODELS
  THEN [truthy |-> TRUE, apiKeyEnv |-> MODELS[modelKey].apiKeyEnv,
        hasEndpoint |-> TRUE]
  ELSE IF modelKey \in ObjectPrototypeKeys
  THEN [truthy |-> TRUE, apiKeyEnv |-> "undefined", hasEndpoint |-> FALSE]
  ELSE [truthy |-> FALSE, apiKeyEnv |-> "undefined", hasEndpoint |-> FALSE]

\* getModelConfig: throws "Unsupported model: <key>. Supported: <keys>" when
\* the lookup is falsy.
getModelConfig(modelKey) ==
  LET config == LookupModel(modelKey)
  IN  IF ~config.truthy
      THEN [ok |-> FALSE, config |-> config,
            error |-> [kind |-> "error", error |-> "UnsupportedModel",
                       listsSupported |-> TRUE, content |-> "none"]]
      ELSE [ok |-> TRUE, config |-> config, error |-> NoOutcome]

\* What callLLM / generateSummary do with the parsed body:
\*   if (result.choices && result.choices[0])
\*     return result.choices[0].message.content;
\*   throw new Error('Invalid LLM response format');
ExtractContent(shape) ==
  CASE shape = "notJson" -> Threw("SyntaxError")
    [] shape = "null" -> Threw("TypeError")
    [] shape \in {"noChoices", "emptyChoices"} -> Threw("InvalidResponseFormat")
    [] shape = "noMessage" -> Threw("TypeError")
    [] shape = "noContent" -> Returned("undefined")
    [] shape = "text" -> Returned("text")
    [] shape = "jsonText" -> Returned("jsonText")

\* JSON.parse(content)
JsonParse(c) ==
  IF c = "jsonText" THEN Returned("parsed") ELSE Threw("SyntaxError")

\* evaluateSummary of the library: JSON.parse(result.choices[0].message.content)
LibEvaluateExtract(shape) ==
  CASE shape = "notJson" -> Threw("SyntaxError")
    [] shape \in {"null", "noChoices", "emptyChoices", "noMessage"}
         -> Threw("TypeError")
    [] shape = "noContent" -> JsonParse("undefined")
    [] shape \in {"text", "jsonText"} -> JsonParse(shape)

\* The value or exception the body of the try block produces once
\* response.json() has settled on a body of the given shape (it rejects with
\* a SyntaxError when the body is no JSON document).
AfterJson(impl, op, shape) ==
  IF impl = "lib" /\ op = "evaluate" THEN LibEvaluateExtract(shape)
  ELSE ExtractContent(shape)

\* What the caller of the engine's evaluate gets from callLLM's content.
EngineEvaluateFinish(r) ==
  IF r.kind = "ok" THEN JsonParse(r.content) ELSE r

NoCall == [impl |-> "none", op |-> "none", model |-> "none"]

\* No invocation in progress.
GatewayIdle ==
  /\ gwPc = "idle"
  /\ gwCall = NoCall
  /\ gwTimer = "unset"
  /\ gwRequests = 0
  /\ gwOutstanding = 0
  /\ gwBody = "none"
  /\ gwOutcome = NoOutcome

\* The process starts with any of the variables set.
GatewayInit == env \in SUBSET EnvNames /\ GatewayIdle

\* The process of a component that reads no environment variable.
GatewayUnused == env = {} /\ GatewayIdle

\* The catch block: an AbortError becomes the timeout error, anything else
\* is passed on (the library prefixes its message); no request is issued.
CatchRetries(err) ==
  /\ gwPc' = "fetching"
  /\ gwOutcome' = NoOutcome
  /\ gwRequests' = gwRequests + 1
  /\ gwOutstanding' = 1
Catch(err) ==
  /\ gwPc' = "threw"
  /\ gwOutcome' = Threw(IF err = "AbortError" THEN "Timeout" ELSE err)
  /\ gwOutstanding' = 0
  /\ UNCHANGED gwRequests

\* clearTimeout(timeoutId) in the catch block: callLLM has it, the library's
\* generateSummary and evaluateSummary do not.
TimerAfterCatch(impl, timer) == IF impl = "engine" THEN "cleared" ELSE timer

\* generate / evaluate / optimize (engine) and generateSummary /
\* evaluateSummary / optimizePrompt (library) up to their first await:
\* the configuration checks, setTimeout and the call of fetch.
Invoke(impl, op, modelKey) ==
  /\ gwPc = "idle"
  /\ gwCall' = [impl |-> impl, op |-> op, model |-> modelKey]
  /\ gwBody' = "none"
  /\ LET c == getModelConfig(modelKey)
     IN  IF ~c.ok
         THEN /\ gwPc' = "threw"
              /\ gwOutcome' = c.error
              /\ UNCHANGED <<gwTimer, gwRequests, gwOutstanding>>
         ELSE IF c.config.apiKeyEnv \notin env
         THEN /\ gwPc' = "threw"
              /\ gwOutcome' = Threw("ApiKeyNotSet")
              /\ UNCHANGED <<gwTimer, gwRequests, gwOutstanding>>
         ELSE IF ~c.config.hasEndpoint
         THEN \* fetch(undefined, ...) rejects at once: no URL, no request
              /\ Catch("TypeError")
              /\ gwTimer' = TimerAfterCatch(impl, "armed")
         ELSE /\ gwPc' = "fetching"
              /\ gwTimer' = "armed"
              /\ gwRequests' = gwRequests + 1
              /\ gwOutstanding' = 1
              /\ UNCHANGED gwOutcome
  /\ UNCHANGED <<env, notGateway>>

\* await fetch(...) resolves with the response head; clearTimeout(timeoutId)
\* runs next, then the body is awaited.
FetchResolves(ok) ==
  /\ gwPc = "fetching"
  /\ gwTimer' = "cleared"
  /\ gwPc' = IF ok THEN "readingJson" ELSE "readingErrorBody"
  /\ UNCHANGED <<env, gwCall, gwRequests, gwOutstanding, gwBody, gwOutcome,
               notGateway>>

\* await fetch(...) rejects: the connection failed.
FetchRejects ==
  /\ gwPc = "fetching"
  /\ Catch("NetworkError")
  /\ gwTimer' = TimerAfterCatch(gwCall.impl, gwTimer)
  /\ UNCHANGED <<env, gwCall, gwBody, notGateway>>

\* The timer callback: controller.abort() makes the pending fetch reject with
\* an AbortError.
TimerFires ==
  /\ gwTimer = "armed"
  /\ gwPc = "fetching"
  /\ Catch("AbortError")
  /\ gwTimer' = "fired"
  /\ UNCHANGED <<env, gwCall, gwBody, notGateway>>

\* await response.text() of a non-2xx response resolves:
\* throw new Error(`API Error: ${response.status} - ${errorData}`).
ErrorBodyArrives ==
  /\ gwPc = "readingErrorBody"
  /\ Catch("ApiError")
  /\ gwTimer' = TimerAfterCatch(gwCall.impl, gwTimer)
  /\ UNCHANGED <<env, gwCall, gwBody, notGateway>>

\* await response.json() settles on a body of the given shape.
JsonArrives(shape) ==
  /\ gwPc = "readingJson"
  /\ gwBody' = shape
  /\ LET r == AfterJson(gwCall.impl, gwCall.op, shape)
         out == IF gwCall.impl = "engine" /\ gwCall.op = "evaluate"
                THEN EngineEvaluateFinish(r) ELSE r
     IN  IF out.kind = "ok"
         THEN /\ gwPc' = "returned"
              /\ gwOutcome' = out
              /\ gwOutstanding' = 0
              /\ UNCHANGED <<gwRequests, gwTimer>>
         ELSE /\ Catch(out.error)
              /\ gwTimer' = TimerAfterCatch(gwCall.impl, gwTimer)
  /\ UNCHANGED <<env, gwCall, notGateway>>

\* The connection breaks while the body is read.
BodyReadFails ==
  /\ gwPc \in {"readingErrorBody", "readingJson"}
  /\ Catch("NetworkError")
  /\ gwTimer' = TimerAfterCatch(gwCall.impl, gwTimer)
  /\ UNCHANGED <<env, gwCall, gwBody, notGateway>>

\* The caller has the result or the exception; the invocation is over.
Settle ==
  /\ gwPc \in {"returned", "threw"}
  /\ gwPc' = "idle"
  /\ gwCall' = NoCall
  /\ gwTimer' = "unset"
  /\ gwRequests' = 0
  /\ gwOutstanding' = 0
  /\ gwBody' = "none"
  /\ gwOutcome' = NoOutcome
  /\ UNCHANGED <<env, notGateway>>

GatewayNext ==
  \/ \E impl \in Impls, op \in Ops, k \in ModelKeyInputs : Invoke(impl, op, k)
  \/ \E ok \in BOOLEAN : FetchResolves(ok)
  \/ FetchRejects
  \/ TimerFires
  \/ ErrorBodyArrives
  \/ \E shape \in BodyShapes : JsonArrives(shape)
  \/ BodyReadFails
  \/ Settle

----------------------------------------------------------------------------
(* Evaluation Log Store: class Logger                                      *)
(*                                                                         *)
(* One Logger object, as getLogger() hands the same one to every caller.   *)
(* A log entry carries an id that the program does not have: it tells the  *)
(* entries apart in the properties below.                                  *)

\* How many entries start() opens, at most.
MaxStarts == 2

\* How far the clock runs.
MaxClock == 2

\* Clock ticks per calendar day.
TicksPerDay == 2

\* How many lines the evaluation files hold, at most.
MaxEvaluations == 2

\* How many evaluate commands run, at most.
MaxRuns == 2

\* The largest days and limit arguments handed to the readers.
MaxDays == 2

\* The commands that call logger.start: generate and evaluate.
LogCommands == {"generate", "evaluate"}

\* new Date().toISOString().split('T')[0]
DateOf(t) == t \div TicksPerDay

LogDates == 0..DateOf(MaxClock + 1)

\* No call on the Logger has returned yet.
NoResult == <<>>

\* A call that returns nothing.
Void(op) == <<[op |-> op]>>

LoggerInit ==
  /\ logNow = 0
  /\ currentLog = <<>>
  /\ startTime = 0
  /\ commandFiles = [f \in LogCommands \X LogDates |-> <<>>]
  /\ opened = 0
  /\ evaluationFiles = [d \in LogDates |-> <<>>]
  /\ logResult = NoResult
  /\ evalPc = "idle"
  /\ evalScene = ""
  /\ evalOutcome = <<>>

\* What the evaluate command keeps between its steps.
evalVars == <<evalPc, evalScene, evalOutcome>>

\* Time passes.
Tick ==
  /\ logNow < MaxClock
  /\ logNow' = logNow + 1
  /\ UNCHANGED <<currentLog, startTime, commandFiles, opened, evaluationFiles,
                 logResult, evalVars, notLogger>>

\* The entry start() makes current.
Pending(command) ==
  [id |-> opened + 1, timestamp |-> logNow, command |-> command,
   status |-> "pending", output |-> <<>>]

\* start(command, args, options)
start(command) ==
  /\ opened < MaxStarts
  /\ startTime' = logNow
  /\ currentLog' = <<Pending(command)>>
  /\ opened' = opened + 1
  /\ logResult' = Void("start")
  /\ UNCHANGED <<logNow, commandFiles, evaluationFiles, evalVars, notLogger>>

\* save(entry): appendFileSync(`${entry.command}_${date}.jsonl`, line)
saveOverwriting(files, entry) ==
  [files EXCEPT ![<<entry.command, DateOf(logNow)>>] = <<entry>>]

save(files, entry) ==
  [files EXCEPT ![<<entry.command, DateOf(logNow)>>] = Append(@, entry)]

\* The entry end() hands to save(): the current one, with its output and
\* its final status.
Finalized(log, since, success) ==
  [log EXCEPT !.output = <<[success |-> success, duration |-> logNow - since]>>,
              !.status = IF success THEN "success" ELSE "error"]

\* end(success, data, error)
end(success) ==
  /\ IF currentLog = <<>>
     THEN UNCHANGED <<currentLog, commandFiles>>
     ELSE /\ commandFiles' =
               save(commandFiles, Finalized(currentLog[1], startTime, success))
          /\ currentLog' = <<>>
  /\ logResult' = Void("end")
  /\ UNCHANGED <<logNow, startTime, opened, evaluationFiles, evalVars,
                 notLogger>>

\* The score names of an evaluation record.  "legacyTotal" stands for the
\* key '总分' that getEvaluationStats falls back to.
ScoreKeys == <<"total", "legacyTotal">>

\* scores[key], or <<>> where the record has no such key.  A scores object
\* is a sequence of <<key, value>> pairs in Object.entries order.
ScoreAt(scores, key) ==
  LET hits == SelectSeq(scores, LAMBDA kv : kv[1] = key)
  IN  IF hits = <<>> THEN <<>> ELSE <<hits[1][2]>>

\* The lines the evaluation files hold.
EvaluationCount ==
  LET RECURSIVE Upto(_)
      Upto(d) == IF d < 0 THEN 0 ELSE Len(evaluationFiles[d]) + Upto(d - 1)
  IN  Upto(DateOf(MaxClock + 1))

\* saveEvaluation(evaluation): appendFileSync(`${date}.jsonl`, line)
saveEvaluationTwice(files, evaluation) ==
  [files EXCEPT ![DateOf(logNow)] = Append(Append(@, evaluation), evaluation)]

saveEvaluation(files, evaluation) ==
  [files EXCEPT ![DateOf(logNow)] = Append(@, evaluation)]

\* A caller hands a record to saveEvaluation.  run = 0: no evaluate command
\* produced it.
SaveEvaluationCall(scene, scores) ==
  /\ EvaluationCount < MaxEvaluations
  /\ evaluationFiles' =
       saveEvaluation(evaluationFiles,
                      [run |-> 0, scene |-> scene, scores |-> scores])
  /\ logResult' = Void("saveEvaluation")
  /\ UNCHANGED <<logNow, currentLog, startTime, commandFiles, opened,
                 evalVars, notLogger>>

\* The file names of logs/commands in the order readdirSync lists them:
\* sorted by name, so by command and then by date.
CommandOrder == <<"evaluate", "generate">>

DateCount == DateOf(MaxClock + 1) + 1

CommandFileNames ==
  [i \in 1..(Len(CommandOrder) * DateCount) |->
     <<CommandOrder[((i - 1) \div DateCount) + 1], (i - 1) % DateCount>>]

\* The file names of logs/evaluations, sorted: by date.
EvaluationFileNames == [i \in 1..DateCount |-> i - 1]

\* readdirSync(dir).filter(f => f.endsWith('.jsonl')): the files that exist.
\* appendFileSync creates a file with its first line.
readdirSync(files, names) == SelectSeq(names, LAMBDA f : files[f] # <<>>)

\* Array.prototype.slice(begin)
SliceFrom(s, begin) ==
  LET from == IF begin < 0
              THEN (IF Len(s) + begin > 0 THEN Len(s) + begin ELSE 0)
              ELSE (IF begin < Len(s) THEN begin ELSE Len(s))
  IN  SubSeq(s, from + 1, Len(s))

\* files.forEach(file => readFileSync(file).split('\n')...): the lines of
\* the listed files in scan order.  Every line these files hold was written
\* by JSON.stringify, so JSON.parse reads each one back.
RECURSIVE ReadLines(_, _)
ReadLines(files, listing) ==
  IF listing = <<>> THEN <<>>
  ELSE files[Head(listing)] \o ReadLines(files, Tail(listing))

\* Math.round of the fraction n / d, for d > 0
MathRound(n, d) == (2 * n + d) \div (2 * d)

\* entry.output?.duration, or 0 where there is none
DurationOf(entry) ==
  IF entry.output = <<>> THEN 0 ELSE entry.output[1].duration

RECURSIVE TotalDuration(_)
TotalDuration(entries) ==
  IF entries = <<>> THEN 0
  ELSE DurationOf(Head(entries)) + TotalDuration(Tail(entries))

\* The arguments a caller may leave out: a string is "" and a number or a
\* date is <<>> where it is left out.
NoCommand == ""
Absent == <<>>

\* getStats(command, days): the value it returns
StatsOf(command, days) ==
  LET files == SliceFrom(readdirSync(commandFiles, CommandFileNames), -days)
      lines == ReadLines(commandFiles, files)
      counted == SelectSeq(lines,
                   LAMBDA e : ~(command # NoCommand /\ e.command # command))
      totalCommands == Len(counted)
  IN  [totalCommands |-> totalCommands,
       successCount |->
         Len(SelectSeq(counted, LAMBDA e : e.status = "success")),
       errorCount |->
         Len(SelectSeq(counted, LAMBDA e : e.status = "error")),
       avgDuration |->
         IF totalCommands > 0
         THEN MathRound(TotalDuration(counted), totalCommands)
         ELSE 0]

getStats(command, days) ==
  /\ logResult' = <<[op |-> "getStats", command |-> command, days |-> days,
                     value |-> StatsOf(command, days)]>>
  /\ UNCHANGED <<logNow, currentLog, startTime, commandFiles, opened,
                 evaluationFiles, evalVars, notLogger>>

\* filters.limit || 100
DefaultLimit == 100

LimitOf(filters) ==
  IF filters.limit = Absent \/ filters.limit[1] = 0
  THEN DefaultLimit
  ELSE filters.limit[1]

\* The four tests of query that let an entry through.
Passes(filters, entry) ==
  /\ ~(filters.command # NoCommand /\ entry.command # filters.command)
  /\ ~(filters.status # "" /\ entry.status # filters.status)
  /\ ~(filters.startDate # Absent /\ entry.timestamp < filters.startDate[1])
  /\ ~(filters.endDate # Absent /\ entry.timestamp > filters.endDate[1])

\* query(filters): the value it returns
QueryOf(filters) ==
  LET files == readdirSync(commandFiles, CommandFileNames)
      results == SelectSeq(ReadLines(commandFiles, files),
                           LAMBDA e : Passes(filters, e))
  IN  SliceFrom(results, -LimitOf(filters))

query(filters) ==
  /\ logResult' = <<[op |-> "query", filters |-> filters,
                     value |-> QueryOf(filters)]>>
  /\ UNCHANGED <<logNow, currentLog, startTime, commandFiles, opened,
                 evaluationFiles, evalVars, notLogger>>

\* const score = scores?.total || scores?.['总分'] || 0
ScoreOfRecord(scores) ==
  LET total == ScoreAt(scores, "total")
      legacy == ScoreAt(scores, "legacyTotal")
  IN  IF total # <<>> /\ total[1] # 0 THEN total[1]
      ELSE IF legacy # <<>> /\ legacy[1] # 0 THEN legacy[1]
      ELSE 0

RECURSIVE TotalScore(_)
TotalScore(records) ==
  IF records = <<>> THEN 0
  ELSE ScoreOfRecord(Head(records).scores) + TotalScore(Tail(records))

\* The keys of byScene in the order Object.entries yields them: the order
\* in which the scan first met each scene.
RECURSIVE FirstSeen(_, _)
FirstSeen(records, seen) ==
  IF records = <<>> THEN seen
  ELSE FirstSeen(Tail(records),
                 IF \E i \in 1..Len(seen) : seen[i] = Head(records).scene
                 THEN seen
                 ELSE Append(seen, Head(records).scene))

\* byScene[scene].scores: every value the scene's records hold under each
\* score name, in scan order
RECURSIVE ValuesOf(_, _)
ValuesOf(records, key) ==
  IF records = <<>> THEN <<>>
  ELSE ScoreAt(Head(records).scores, key) \o ValuesOf(Tail(records), key)

CollectedScores(records) ==
  LET keys == {k \in {ScoreKeys[i] : i \in 1..Len(ScoreKeys)} :
                 ValuesOf(records, k) # <<>>}
  IN  [k \in keys |-> ValuesOf(records, k)]

\* getEvaluationStats(scene, days): the value it returns.  avgScore is the
\* fraction totalScore / count.
EvaluationStatsOf(scene, days) ==
  LET files == SliceFrom(readdirSync(evaluationFiles, EvaluationFileNames),
                         -days)
      kept == SelectSeq(ReadLines(evaluationFiles, files),
                        LAMBDA r : ~(scene # "" /\ r.scene # scene))
      scenes == FirstSeen(kept, <<>>)
      Of(s) == SelectSeq(kept, LAMBDA r : r.scene = s)
  IN  [i \in 1..Len(scenes) |->
         [scene |-> scenes[i],
          count |-> Len(Of(scenes[i])),
          avgScore |-> <<TotalScore(Of(scenes[i])), Len(Of(scenes[i]))>>,
          scores |-> CollectedScores(Of(scenes[i]))]]

getEvaluationStats(scene, days) ==
  /\ logResult' = <<[op |-> "getEvaluationStats", scene |-> scene,
                     days |-> days, value |-> EvaluationStatsOf(scene, days)]>>
  /\ UNCHANGED <<logNow, currentLog, startTime, commandFiles, opened,
                 evaluationFiles, evalVars, notLogger>>

\* logger.query({ command, limit: 500 }) in calculateDailyTrends
TrendLimit == 500

\* calculateDailyTrends(logger, command, days): the value it returns.
\* byDate has one key per date met; the dates are ISO dates, which
\* localeCompare orders as the calendar does, so the sorted records are
\* those of the dates met, in ascending order.
TrendsOf(command, days) ==
  LET logs == QueryOf([command |-> command, status |-> "",
                       startDate |-> Absent, endDate |-> Absent,
                       limit |-> <<TrendLimit>>])
      On(d) == SelectSeq(logs, LAMBDA e : DateOf(e.timestamp) = d)
      Trend(d) ==
        LET total == Len(On(d))
            success == Len(SelectSeq(On(d), LAMBDA e : e.status = "success"))
            error == Len(SelectSeq(On(d), LAMBDA e : e.status # "success"))
        IN  [date |-> d, total |-> total, success |-> success,
             error |-> error,
             successRate |->
               IF total > 0 THEN MathRound(success * 100, total) ELSE 0,
             avgDuration |->
               IF total > 0 THEN MathRound(TotalDuration(On(d)), total)
               ELSE 0]
      met == SelectSeq(EvaluationFileNames, LAMBDA d : On(d) # <<>>)
      sorted == [i \in 1..Len(met) |-> Trend(met[i])]
  IN  SliceFrom(sorted, -days)

calculateDailyTrends(command, days) ==
  /\ logResult' = <<[op |-> "calculateDailyTrends", command |-> command,
                     days |-> days, value |-> TrendsOf(command, days)]>>
  /\ UNCHANGED <<logNow, currentLog, startTime, commandFiles, opened,
                 evaluationFiles, evalVars, notLogger>>

\* The evaluate command of the CLI (commands/evaluate): start, scene
\* detection and the checks of its input files, up to the call of
\* evaluateSummary, which it awaits.  A missing input file throws into the
\* catch block: end(false), exit.
EvaluateBegin(scene, inputsExist) ==
  /\ evalPc = "idle"
  /\ Len(evalOutcome) < MaxRuns
  /\ opened < MaxStarts
  /\ EvaluationCount < MaxEvaluations
  /\ startTime' = logNow
  /\ opened' = opened + 1
  /\ IF inputsExist
     THEN /\ currentLog' = <<Pending("evaluate")>>
          /\ evalPc' = "awaiting"
          /\ evalScene' = scene
          /\ UNCHANGED <<commandFiles, evalOutcome>>
     ELSE /\ commandFiles' =
               save(commandFiles, Finalized(Pending("evaluate"), logNow, FALSE))
          /\ currentLog' = <<>>
          /\ evalOutcome' = Append(evalOutcome, "error")
          /\ UNCHANGED <<evalPc, evalScene>>
  /\ logResult' = Void(IF inputsExist THEN "start" ELSE "end")
  /\ UNCHANGED <<logNow, evaluationFiles, notLogger>>

\* What end(success) does to the command files and the current entry.
EndWrites(success) ==
  IF currentLog = <<>>
  THEN UNCHANGED <<currentLog, commandFiles>>
  ELSE /\ commandFiles' =
            save(commandFiles, Finalized(currentLog[1], startTime, success))
       /\ currentLog' = <<>>

\* evaluateSummary returns: logger.saveEvaluation({scene, scores, ...}),
\* then logger.end(true).  total is <<>> where the reply has no total.
\* The result file that lib/storage writes before is no part of the log
\* store.
EvaluateResolves(total) ==
  /\ evalPc = "awaiting"
  /\ evaluationFiles' =
       saveEvaluation(evaluationFiles,
         [run |-> Len(evalOutcome) + 1, scene |-> evalScene,
          scores |-> (IF total = Absent THEN <<>> ELSE <<<<"total", total[1]>>>>)
                       \o <<<<"completeness", 30>>>>])
  /\ EndWrites(TRUE)
  /\ evalPc' = "idle"
  /\ evalScene' = ""
  /\ evalOutcome' = Append(evalOutcome, "success")
  /\ logResult' = Void("end")
  /\ UNCHANGED <<logNow, startTime, opened, notLogger>>

\* evaluateSummary throws: the catch block calls logger.end(false).
EvaluateRejects ==
  /\ evalPc = "awaiting"
  /\ EndWrites(FALSE)
  /\ evalPc' = "idle"
  /\ evalScene' = ""
  /\ evalOutcome' = Append(evalOutcome, "error")
  /\ logResult' = Void("end")
  /\ UNCHANGED <<logNow, startTime, opened, evaluationFiles, notLogger>>

\* The evaluate command of the engine CLI has no logger.
EngineEvaluate ==
  /\ evalPc = "idle"
  /\ Len(evalOutcome) < MaxRuns
  /\ evalOutcome' = Append(evalOutcome, "engine")
  /\ UNCHANGED <<logNow, currentLog, startTime, commandFiles, opened,
                 evaluationFiles, logResult, evalPc, evalScene, notLogger>>

\* The arguments the readers are called with.
DaysInputs == 0..MaxDays

CommandInputs == {NoCommand, "generate"}

NoFilters ==
  [command |-> NoCommand, status |-> "", startDate |-> Absent,
   endDate |-> Absent, limit |-> Absent]

\* No filter, each filter alone, and all of them together.
QueryFilters ==
  {NoFilters}
  \cup {[NoFilters EXCEPT !.limit = <<n>>] : n \in 0..MaxDays}
  \cup {[NoFilters EXCEPT !.command = c] : c \in LogCommands}
  \cup {[NoFilters EXCEPT !.status = st] : st \in {"success", "error"}}
  \cup {[NoFilters EXCEPT !.startDate = <<t>>] : t \in 1..MaxClock}
  \cup {[NoFilters EXCEPT !.endDate = <<t>>] : t \in 0..(MaxClock - 1)}
  \cup {[command |-> c, status |-> "error", startDate |-> <<0>>,
          endDate |-> <<MaxClock>>, limit |-> <<1>>] : c \in LogCommands}

EvalScenes == {"product/weekly", "other"}

ScoreInputs ==
  { <<<<"total", 80>>>>, <<<<"legacyTotal", 60>>>>,
    <<<<"total", 0>>, <<"legacyTotal", 60>>>> }

TotalInputs == {Absent, <<0>>, <<80>>}

\* Every operation of the Logger, the readers with their default arguments.
LoggerNext ==
  \/ Tick
  \/ \E c \in LogCommands : start(c)
  \/ \E ok \in BOOLEAN : end(ok)
  \/ SaveEvaluationCall("other", <<<<"total", 80>>>>)
  \/ getStats(NoCommand, MaxDays)
  \/ query(NoFilters)
  \/ getEvaluationStats("", MaxDays)

\* The command log and its readers.
InsightNext ==
  \/ Tick
  \/ \E c \in LogCommands : start(c)
  \/ \E ok \in BOOLEAN : end(ok)
  \/ \E c \in CommandInputs, d \in DaysInputs : getStats(c, d)
  \/ \E f \in QueryFilters : query(f)
  \/ \E c \in CommandInputs, d \in DaysInputs : calculateDailyTrends(c, d)

\* The evaluation log and its reader.
EvaluationsNext ==
  \/ Tick
  \/ \E s \in EvalScenes, sc \in ScoreInputs : SaveEvaluationCall(s, sc)
  \/ \E s \in {"", "other"}, d \in DaysInputs : getEvaluationStats(s, d)

\* The evaluate commands of the two CLIs.
EvaluateNext ==
  \/ Tick
  \/ \E s \in EvalScenes, ok \in BOOLEAN : EvaluateBegin(s, ok)
  \/ \E t \in TotalInputs : EvaluateResolves(t)
  \/ EvaluateRejects
  \/ EngineEvaluate

----------------------------------------------------------------------------
(* The commands of the CLI                                                 *)
(*                                                                         *)
(* An invocation is a process of its own with its own Logger, so what it   *)
(* appends to the log files does not depend on other invocations: it is    *)
(* one step, from the action callback's first line to its return or its    *)
(* process.exit(1).  generate and evaluate call logger.start first and     *)
(* logger.end in both branches; detect, optimize, the version commands and *)
(* insight have no such call (insight only reads the log).                 *)

\* How many invocations there are.
MaxInvocations == 2

CliCommands ==
  {"detect", "generate", "evaluate", "optimize", "version list",
   "version save", "version download", "insight"}

\* The catch block of every command but version list ends in
\* process.exit(1); version list prints the message and returns.
ExitCode(command, failed) ==
  IF failed /\ command # "version list" THEN 1 ELSE 0

CommandsInit == cliHistory = <<>>

\* One invocation of a command; failed: a core error was thrown inside its
\* try block.  The entry's id is the one start() gives it; an invocation
\* without a logger has none.
Invocation(command, failed) ==
  /\ Len(cliHistory) < MaxInvocations
  /\ currentLog = <<>>
  /\ IF command \in LogCommands
     THEN /\ opened < MaxStarts
          /\ opened' = opened + 1
          /\ commandFiles' =
               save(commandFiles, Finalized(Pending(command), logNow, ~failed))
          /\ IF command = "evaluate" /\ ~failed
             THEN /\ EvaluationCount < MaxEvaluations
                  /\ evaluationFiles' =
                       saveEvaluation(evaluationFiles,
                         [run |-> 0, scene |-> "other",
                          scores |-> <<<<"total", 80>>>>])
             ELSE UNCHANGED evaluationFiles
          /\ logResult' = Void("end")
     ELSE UNCHANGED <<opened, commandFiles, evaluationFiles, logResult>>
  /\ cliHistory' =
       Append(cliHistory,
              [command |-> command, failed |-> failed,
               exitCode |-> ExitCode(command, failed),
               entry |-> IF command \in LogCommands THEN opened + 1 ELSE 0])
  /\ UNCHANGED <<logNow, currentLog, startTime, evalVars>>
  /\ UNCHANGED notCommands

CommandsNext ==
  \/ Tick
  \/ \E command \in CliCommands, failed \in BOOLEAN : Invocation(command, failed)

----------------------------------------------------------------------------
(* insight --claude: the worst command of generateClaudeSuggestions        *)
(*                                                                         *)
(* logs is what logger.query returned: entries of the commands that log,   *)
(* each success or error.  A rate (success / total) * 100 is the pair      *)
(* <<success * 100, total>>; two such quotients of small integers compare  *)
(* in floating point as the fractions do.                                  *)

\* How many entries the analysed logs hold, at most.
MaxSuggestLogs == 6

SuggestEntries ==
  {[command |-> c, status |-> s] : c \in LogCommands, s \in {"success", "error"}}

SuggestInputs ==
  UNION {[1..n -> SuggestEntries] : n \in 0..MaxSuggestLogs}

SuggestInit == suggestLogs = <<>> /\ suggestion = <<>>

SuggestInitAny == suggestLogs \in SuggestInputs /\ suggestion = <<>>

\* The keys of cmdStats in the order Object.entries yields them: the order
\* in which logs.forEach first met each command.
RECURSIVE CommandsSeen(_, _)
CommandsSeen(logs, seen) ==
  IF logs = <<>> THEN seen
  ELSE CommandsSeen(Tail(logs),
                    IF \E i \in 1..Len(seen) : seen[i] = Head(logs).command
                    THEN seen
                    ELSE Append(seen, Head(logs).command))

\* cmdStats[cmd] after the forEach
CmdStats(logs, cmd) ==
  [success |-> Len(SelectSeq(logs, LAMBDA e : e.command = cmd
                                              /\ e.status = "success")),
   total |-> Len(SelectSeq(logs, LAMBDA e : e.command = cmd))]

\* data.total > 2
EnoughSamplesOne(total) == total > 0

EnoughSamples(total) == total > 2

\* let worstRate = 100
InitialWorstRate == 100

\* The forEach over Object.entries(cmdStats): worstCmd and worstRate after
\* the commands in keys were visited.
RECURSIVE WorstAfter(_, _, _)
WorstAfter(logs, keys, worst) ==
  IF keys = <<>> THEN worst
  ELSE LET data == CmdStats(logs, Head(keys))
           rate == <<data.success * 100, data.total>>
       IN  WorstAfter(logs, Tail(keys),
             IF RatLess(rate, worst.worstRate) /\ EnoughSamples(data.total)
             THEN [worstCmd |-> Head(keys), worstRate |-> rate]
             ELSE worst)

\* worstCmd and worstRate as generateClaudeSuggestions has them at
\* `if (worstCmd)`: the suggestion is pushed iff worstCmd is not ''.
WorstCommand(logs) ==
  WorstAfter(logs, CommandsSeen(logs, <<>>),
             [worstCmd |-> "", worstRate |-> <<InitialWorstRate, 1>>])

generateClaudeSuggestions ==
  /\ suggestion = <<>>
  /\ suggestion' = <<WorstCommand(suggestLogs)>>
  /\ UNCHANGED suggestLogs
  /\ UNCHANGED notSuggest

SuggestNext == generateClaudeSuggestions

----------------------------------------------------------------------------
(* Prompt Version Store (lib/storage)                                      *)
(*                                                                         *)
(* A scene directory is a function from file names to contents; names are  *)
(* sequences of UTF-16 code units, so that `v${n}.md` and the sorts are    *)
(* what they are in JavaScript.  Each process in Savers runs the CLI once  *)
(* at a time; savePromptVersion is a sequence of file-system calls,        *)
(* between which another process may run.                                  *)

\* How many saves are started, at most.
MaxSaves == 10

\* How many saves are started where two processes save at once.
MaxRacingSaves == 3

SCENES == {"product/weekly", "hr/exit"}

\* The contents handed to save.
PromptTexts == {1, 2}

\* The content of a default.md the user wrote.
DefaultText == 0

Savers == {1, 2}

\* String(n) for n >= 0: its decimal digits
RECURSIVE DecimalDigits(_)
DecimalDigits(n) ==
  IF n < 10 THEN <<48 + n>>
  ELSE Append(DecimalDigits(n \div 10), 48 + (n % 10))

\* `v${version}`
VersionId(version) == <<118>> \o DecimalDigits(version)

\* ".md"
MdSuffix == <<46, 109, 100>>

\* `v${nextVersion}.md`
VersionFile(version) == VersionId(version) \o MdSuffix

\* "default.md"
DefaultFile == <<100, 101, 102, 97, 117, 108, 116>> \o MdSuffix

\* f.startsWith('v') && f.endsWith('.md')
IsVersionFile(f) ==
  /\ Len(f) >= 1 /\ f[1] = 118
  /\ Len(f) >= Len(MdSuffix)
  /\ SubSeq(f, Len(f) - Len(MdSuffix) + 1, Len(f)) = MdSuffix

\* f.replace('.md', ''): the first occurrence removed
WithoutMd(f) ==
  LET at == {i \in 1..(Len(f) - Len(MdSuffix) + 1) :
               SubSeq(f, i, i + Len(MdSuffix) - 1) = MdSuffix}
  IN  IF at = {} THEN f
      ELSE LET i == CHOOSE j \in at : \A k \in at : j <= k
           IN  SubSeq(f, 1, i - 1) \o SubSeq(f, i + Len(MdSuffix), Len(f))

\* a < b as Array.prototype.sort() compares strings: by UTF-16 code units.
\* localeCompare orders strings of 'v' and digits the same way.
CodeUnitLess(a, b) ==
  \/ /\ Len(a) < Len(b)
     /\ SubSeq(b, 1, Len(a)) = a
  \/ \E i \in 1..(IF Len(a) < Len(b) THEN Len(a) ELSE Len(b)) :
       /\ SubSeq(a, 1, i - 1) = SubSeq(b, 1, i - 1)
       /\ a[i] < b[i]

\* The strings of a set from the greatest down.
RECURSIVE Descending(_)
Descending(names) ==
  IF names = {} THEN <<>>
  ELSE LET top == CHOOSE a \in names :
                    \A b \in names \ {a} : CodeUnitLess(b, a)
       IN  <<top>> \o Descending(names \ {top})

\* A saver that is not inside savePromptVersion.
Idle ==
  [pc |-> "idle", scene |-> "", content |-> 0, note |-> "",
   nextVersion |-> 0, index |-> <<>>]

\* index = { scenes: {} }
EmptyIndex == [scenes |-> <<>>]

\* No default.md, no version, no index: the state before initDirs.
VersionsInit ==
  /\ promptDirs = {}
  /\ promptFiles = [s \in SCENES |-> <<>>]
  /\ promptIndex = <<>>
  /\ saver = [p \in Savers |-> Idle]
  /\ saveHistory = <<>>
  /\ versionResult = <<>>

\* The same, or with a default.md that the user put into a scene directory.
VersionsInitWithDefault ==
  /\ promptDirs \in SUBSET {"product/weekly"}
  /\ promptFiles =
       [s \in SCENES |->
          IF s \in promptDirs THEN [f \in {DefaultFile} |-> DefaultText]
          ELSE <<>>]
  /\ promptIndex = <<>>
  /\ saver = [p \in Savers |-> Idle]
  /\ saveHistory = <<>>
  /\ versionResult = <<>>

\* initDirs(): mkdirSync of every scene directory that is missing
initDirs ==
  /\ promptDirs # SCENES
  /\ promptDirs' = SCENES
  /\ UNCHANGED <<promptFiles, promptIndex, saver, saveHistory, versionResult,
                 notVersions>>

\* listPromptVersions(scene) on the directories dirs and their files
ListOf(dirs, files, scene) ==
  IF scene \notin dirs THEN <<>>
  ELSE LET names == {f \in DOMAIN files[scene] : IsVersionFile(f)}
           sorted == Descending({WithoutMd(f) : f \in names})
       IN  [i \in 1..Len(sorted) |->
              [version |-> sorted[i],
               file |-> CHOOSE f \in names : WithoutMd(f) = sorted[i]]]

\* const nextVersion = versions.length + 1
NextVersionFromZero(versions) == Len(versions)

NextVersion(versions) == Len(versions) + 1

\* writeFileSync(path, content): the file is created or replaced
WriteFile(dir, name, text) ==
  [f \in DOMAIN dir \cup {name} |-> IF f = name THEN text ELSE dir[f]]

\* How many saves have been started.
SavesStarted ==
  Len(saveHistory) + Cardinality({p \in Savers : saver[p].pc # "idle"})

\* savePromptVersion, up to nextVersion: mkdirSync where the directory is
\* missing, listPromptVersions, versions.length + 1
SaveBegin(p, scene, text, limit) ==
  /\ saver[p].pc = "idle"
  /\ SavesStarted < limit
  /\ promptDirs' = promptDirs \cup {scene}
  /\ saver' = [saver EXCEPT ![p] =
       [pc |-> "counted", scene |-> scene, content |-> text, note |-> "",
        nextVersion |-> NextVersion(ListOf(promptDirs', promptFiles, scene)),
        index |-> <<>>]]
  /\ UNCHANGED <<promptFiles, promptIndex, saveHistory, versionResult,
                 notVersions>>

\* writeFileSync(join(dir, `v${nextVersion}.md`), content)
SaveWriteFile(p) ==
  /\ saver[p].pc = "counted"
  /\ promptFiles' = [promptFiles EXCEPT ![saver[p].scene] =
       WriteFile(@, VersionFile(saver[p].nextVersion), saver[p].content)]
  /\ saver' = [saver EXCEPT ![p].pc = "written"]
  /\ UNCHANGED <<promptDirs, promptIndex, saveHistory, versionResult,
                 notVersions>>

\* updatePromptIndex, the read: index.json parsed, or { scenes: {} }
SaveReadIndex(p) ==
  /\ saver[p].pc = "written"
  /\ saver' = [saver EXCEPT
       ![p].pc = "indexRead",
       ![p].index = <<IF promptIndex = <<>> THEN EmptyIndex
                      ELSE promptIndex[1]>>]
  /\ UNCHANGED <<promptDirs, promptFiles, promptIndex, saveHistory,
                 versionResult, notVersions>>

\* index.scenes[scene].versions.push(...); current_version = `v${version}`
Pushed(index, scene, version, note) ==
  [scenes |->
     [s \in DOMAIN index.scenes \cup {scene} |->
        IF s # scene THEN index.scenes[s]
        ELSE LET record == IF scene \in DOMAIN index.scenes
                           THEN index.scenes[scene]
                           ELSE [versions |-> <<>>, current_version |-> <<>>]
             IN  [versions |->
                    Append(record.versions,
                           [id |-> VersionId(version), note |-> note]),
                  current_version |-> <<VersionId(version)>>]]]

\* updatePromptIndex, the write, and the return of savePromptVersion
SaveWriteIndex(p) ==
  /\ saver[p].pc = "indexRead"
  /\ promptIndex' = <<Pushed(saver[p].index[1], saver[p].scene,
                             saver[p].nextVersion, saver[p].note)>>
  /\ saveHistory' = Append(saveHistory,
       [scene |-> saver[p].scene, version |-> saver[p].nextVersion,
        content |-> saver[p].content])
  /\ versionResult' =
       <<[op |-> "save", scene |-> saver[p].scene,
          value |-> [version |-> saver[p].nextVersion,
                     file |-> VersionFile(saver[p].nextVersion)]]>>
  /\ saver' = [saver EXCEPT ![p] = Idle]
  /\ UNCHANGED <<promptDirs, promptFiles, notVersions>>

\* getPromptByScene(scene, version): the path it returns or the error it
\* throws.  version is <<>> (null) or <<the digits of a version>>.
PromptOf(scene, version) ==
  IF scene \notin promptDirs
  THEN [ok |-> FALSE, error |-> "no scene directory"]
  ELSE IF version # <<>>
  THEN (IF <<118>> \o version[1] \o MdSuffix \in DOMAIN promptFiles[scene]
        THEN [ok |-> TRUE, file |-> <<118>> \o version[1] \o MdSuffix]
        ELSE [ok |-> FALSE, error |-> "no such version"])
  ELSE IF DefaultFile \in DOMAIN promptFiles[scene]
  THEN [ok |-> TRUE, file |-> DefaultFile]
  ELSE LET files == Descending({f \in DOMAIN promptFiles[scene] :
                                  IsVersionFile(f)})
       IN  IF Len(files) > 0
           THEN [ok |-> TRUE, file |-> files[1]]
           ELSE [ok |-> FALSE, error |-> "no prompt file"]

getPromptByScene(p, scene, version) ==
  /\ saver[p].pc = "idle"
  /\ versionResult' = <<[op |-> "get", scene |-> scene, version |-> version,
                         value |-> PromptOf(scene, version)]>>
  /\ UNCHANGED <<promptDirs, promptFiles, promptIndex, saver, saveHistory,
                 notVersions>>

listPromptVersions(p, scene) ==
  /\ saver[p].pc = "idle"
  /\ versionResult' = <<[op |-> "list", scene |-> scene,
                         value |-> ListOf(promptDirs, promptFiles, scene)]>>
  /\ UNCHANGED <<promptDirs, promptFiles, promptIndex, saver, saveHistory,
                 notVersions>>

\* One CLI process at a time, on one scene.
VersionsNext ==
  \/ \E t \in PromptTexts : SaveBegin(1, "product/weekly", t, MaxSaves)
  \/ SaveWriteFile(1)
  \/ SaveReadIndex(1)
  \/ SaveWriteIndex(1)
  \/ getPromptByScene(1, "product/weekly", <<>>)
  \/ listPromptVersions(1, "product/weekly")

DownloadInit == outputFile = <<>>

\* How many versions are saved before versions are fetched.
MaxDownloadSaves == 2

\* downloadPromptVersion(scene, version, outputPath) up to its file calls:
\* the file it resolves the version to, if that file exists.
DownloadOf(scene, version) ==
  LET versionFile == IF Includes(version, MdSuffix) THEN version
                     ELSE <<118>> \o version \o MdSuffix
  IN  IF scene \in promptDirs /\ versionFile \in DOMAIN promptFiles[scene]
      THEN [ok |-> TRUE, file |-> versionFile]
      ELSE [ok |-> FALSE, error |-> "no such version"]

\* outputPath is a file outside the prompts directory.
downloadPromptVersion(p, scene, version) ==
  /\ saver[p].pc = "idle"
  /\ LET r == DownloadOf(scene, version)
     IN  /\ versionResult' = <<[op |-> "download", scene |-> scene,
                                version |-> <<version>>, value |-> r]>>
         /\ outputFile' = IF r.ok THEN <<promptFiles[scene][r.file]>>
                          ELSE outputFile
  /\ UNCHANGED <<promptDirs, promptFiles, promptIndex, saver, saveHistory>>
  /\ UNCHANGED notDownload

\* The version arguments of get and download: "1", "v1" and "v1.md" for
\* each version number that may exist, and for one that does not.
VersionArgs ==
  UNION {{DecimalDigits(n), VersionId(n), VersionFile(n)} :
           n \in 1..(MaxDownloadSaves + 1)}

\* One CLI process at a time, saving, listing and fetching versions.
DownloadNext ==
  \/ \E t \in PromptTexts : SaveBegin(1, "product/weekly", t, MaxDownloadSaves)
  \/ SaveWriteFile(1)
  \/ SaveReadIndex(1)
  \/ SaveWriteIndex(1)
  \/ listPromptVersions(1, "product/weekly")
  \/ \E v \in VersionArgs : getPromptByScene(1, "product/weekly", <<v>>)
  \/ \E v \in VersionArgs : downloadPromptVersion(1, "product/weekly", v)

\* Two CLI processes saving at once.
RacingNext ==
  \/ initDirs
  \/ \E p \in Savers, s \in SCENES, t \in PromptTexts :
       SaveBegin(p, s, t, MaxRacingSaves)
  \/ \E p \in Savers : SaveWriteFile(p)
  \/ \E p \in Savers : SaveReadIndex(p)
  \/ \E p \in Savers : SaveWriteIndex(p)

----------------------------------------------------------------------------
(* Task Queue and REST API (api/taskQueue, api/index)                      *)
(*                                                                         *)
(* tasks is the module-level Map of taskQueue: a function whose domain is  *)
(* the ids present.  A task is a record whose optional fields (output,     *)
(* error) are in its domain only once they were set, as in the JavaScript  *)
(* object.  An id is `task_${type}_${Date.now()}_${random}`; the random    *)
(* suffix is taken to differ between two tasks, so an id is the number of  *)
(* the creation.  createdAt and updatedAt are ISO strings with millisecond *)
(* precision, which new Date(...).getTime() reads back exactly: they are   *)
(* kept as milliseconds.  A route handler runs to its return without       *)
(* another handler in between, apart from the awaits inside executeTask.   *)

\* How far the clock advances at a time, and how often.
TaskTickMs == 43200000
MaxTaskTicks == 3
\* How many tasks are created.
MaxTasks == 2
\* How many tasks are created while the clock runs.
MaxAgingTasks == 1

DayMs == 24 * 60 * 60 * 1000

TaskTypes == {"detect", "generate", "evaluate", "optimize"}
NoType == ""
NoInput == <<>>

TaskIds == 1..MaxTasks

TasksInit ==
  /\ tasks = <<>>
  /\ taskNow = 0
  /\ taskSeq = 0
  /\ execPc = <<>>
  /\ trail = <<>>
  /\ response = <<>>

TaskTick ==
  /\ taskNow < MaxTaskTicks * TaskTickMs
  /\ taskNow' = taskNow + TaskTickMs
  /\ UNCHANGED <<tasks, taskSeq, execPc, trail, response>>
  /\ UNCHANGED notTasks

\* Map.prototype.set
MapSet(map, key, value) ==
  [k \in DOMAIN map \cup {key} |-> IF k = key THEN value ELSE map[k]]

\* Map.prototype.delete
MapDelete(map, key) == [k \in DOMAIN map \ {key} |-> map[k]]

\* { ...task, ...updates, updatedAt }
Spread(task, updates, now) ==
  [f \in DOMAIN task \cup DOMAIN updates \cup {"updatedAt"} |->
     IF f = "updatedAt" THEN now
     ELSE IF f \in DOMAIN updates THEN updates[f]
     ELSE task[f]]

NewTask(id, type, input, now) ==
  [id |-> id, type |-> type, status |-> "pending", progress |-> 0,
   input |-> input, createdAt |-> now, updatedAt |-> now]

\* The statuses the map has held for each id, in the order they were set.
Trailed(tr, map, id) ==
  IF id \in DOMAIN map
  THEN MapSet(tr, id,
              (IF id \in DOMAIN tr THEN tr[id] ELSE <<>>) \o <<map[id].status>>)
  ELSE tr

createTask(map, id, type, input, now) ==
  MapSet(map, id, NewTask(id, type, input, now))

updateTaskAll(map, id, updates, now) ==
  [k \in DOMAIN map |-> Spread(map[k], updates, now)]

updateTask(map, id, updates, now) ==
  IF id \notin DOMAIN map THEN map
  ELSE MapSet(map, id, Spread(map[id], updates, now))

\* cleanupOldTasks: deleting the current entry while iterating a Map is
\* well defined and visits every other entry once.
Expired(task, now) == task.status # "running" /\ task.createdAt < now - DayMs

cleanupOldTasks(map, now) ==
  [k \in {i \in DOMAIN map : ~Expired(map[i], now)} |-> map[k]]

\* The map and the trail after updateTask(id, updates).
Stored(map, tr) == [map |-> map, tr |-> tr]

Update(st, id, updates, now) ==
  LET map == updateTask(st.map, id, updates, now)
  IN  Stored(map, IF id \in DOMAIN st.map THEN Trailed(st.tr, map, id) ELSE st.tr)

Create(st, id, type, input, now) ==
  LET map == createTask(st.map, id, type, input, now)
  IN  Stored(map, Trailed(st.tr, map, id))

\* engine: createResponse.  status is "" and progress, data, taskId, error
\* are <<>> where the argument is undefined.
createResponse(code, msg, data, taskId, status, progress, failure) ==
  [code |-> code,
   msg |-> msg,
   taskId |-> taskId,
   status |-> IF status # "" THEN status
              ELSE IF code = 0 THEN "success" ELSE "failed",
   progress |-> IF progress # <<>> THEN progress[1]
                ELSE IF code = 0 THEN 100 ELSE 0,
   data |-> data,
   error |-> failure]

ok(data, taskId, status, progress) ==
  createResponse(0, "success", data, taskId, status, progress, <<>>)

error(msg) == createResponse(1, msg, <<>>, <<>>, "failed", <<0>>, <<msg>>)

\* A response, with the status the map held for its task when it was made.
Responded(route, envelope, map) ==
  <<[route |-> route,
     envelope |-> envelope,
     stored |-> IF envelope.taskId # <<>> /\ envelope.taskId[1] \in DOMAIN map
                THEN <<map[envelope.taskId[1]].status>> ELSE <<>>]>>

\* The checks of POST /api/v1/tasks: <<>>, or the message of the rejection.
\* input.fields are the fields of the body's input that are truthy.
Rejection(body) ==
  IF body.type = NoType \/ body.input = NoInput
  THEN <<"Missing type or input">>
  ELSE LET fields == body.input[1].fields IN
    IF body.type = "detect" /\ "content" \notin fields
    THEN <<"Missing content for detect">>
    ELSE IF body.type = "generate" /\ ("data" \notin fields \/ "prompt" \notin fields)
    THEN <<"Missing data or prompt for generate">>
    ELSE IF body.type = "evaluate"
            /\ ("generated" \notin fields \/ "reference" \notin fields)
    THEN <<"Missing generated or reference for evaluate">>
    ELSE IF body.type = "optimize"
            /\ ("prompt" \notin fields \/ "evaluation" \notin fields)
    THEN <<"Missing prompt or evaluation for optimize">>
    ELSE <<>>

\* The operations executeTask awaits; detect is a synchronous call.
Awaited == {"generate", "evaluate", "optimize"}

SucceededRunning(output) ==
  [status |-> "running", progress |-> 100, output |-> output]

Succeeded(output) == [status |-> "success", progress |-> 100, output |-> output]

Failed(message) == [status |-> "failed", progress |-> 0, error |-> message]

\* executeTask up to its first await, or to its end where it awaits nothing.
\* detect({content}) throws a TypeError where content has no includes().
executeTask(st, id, type, input, now) ==
  LET running == Update(st, id, [status |-> "running", progress |-> 10], now) IN
  IF type = "detect"
  THEN IF input.text
       THEN Update(running, id, Succeeded("DetectOutput"), now)
       ELSE Update(running, id, Failed("content.includes is not a function"), now)
  ELSE IF type \in Awaited
  THEN running
  ELSE Update(running, id, Failed("Unknown task type"), now)

PostTask(body, limit) ==
  LET rejected == Rejection(body) IN
  IF rejected # <<>>
  THEN /\ response' = Responded("POST /api/v1/tasks", error(rejected[1]), tasks)
       /\ UNCHANGED <<tasks, taskNow, taskSeq, execPc, trail>>
       /\ UNCHANGED notTasks
  ELSE /\ taskSeq < limit
       /\ LET id == taskSeq + 1
              input == body.input[1]
              created == Create(Stored(tasks, trail), id, body.type, input, taskNow)
              task == created.map[id]
              started == executeTask(created, id, body.type, input, taskNow)
          IN  /\ tasks' = started.map
              /\ trail' = started.tr
              /\ taskSeq' = id
              /\ execPc' = MapSet(execPc, id,
                                  IF body.type \in Awaited THEN "awaiting" ELSE "settled")
              /\ response' =
                   Responded("POST /api/v1/tasks",
                             ok(<<[id |-> task.id, type |-> task.type,
                                   status |-> task.status,
                                   createdAt |-> task.createdAt]>>,
                                <<task.id>>, "pending", <<0>>),
                             started.map)
       /\ UNCHANGED taskNow
       /\ UNCHANGED notTasks

\* The awaited engine call of task id returns: the rest of executeTask.
LlmReturns(id) ==
  /\ id \in DOMAIN execPc
  /\ execPc[id] = "awaiting"
  /\ LET done == Update(Stored(tasks, trail), id, Succeeded("LlmOutput"), taskNow)
     IN  /\ tasks' = done.map
         /\ trail' = done.tr
  /\ execPc' = [execPc EXCEPT ![id] = "settled"]
  /\ UNCHANGED <<taskNow, taskSeq, response>>
  /\ UNCHANGED notTasks

\* The awaited engine call of task id throws: the catch of executeTask.
LlmThrows(id) ==
  /\ id \in DOMAIN execPc
  /\ execPc[id] = "awaiting"
  /\ LET done == Update(Stored(tasks, trail), id, Failed("Request timeout"), taskNow)
     IN  /\ tasks' = done.map
         /\ trail' = done.tr
  /\ execPc' = [execPc EXCEPT ![id] = "settled"]
  /\ UNCHANGED <<taskNow, taskSeq, response>>
  /\ UNCHANGED notTasks

\* GET /api/v1/tasks/:id
GetTaskRoute(id) ==
  /\ response' =
       IF id \notin DOMAIN tasks
       THEN Responded("GET /api/v1/tasks/:id", error("Task not found"), tasks)
       ELSE LET task == tasks[id] IN
            Responded("GET /api/v1/tasks/:id",
                      ok(<<[id |-> task.id, type |-> task.type,
                            status |-> task.status, progress |-> task.progress]>>,
                         <<task.id>>, task.status, <<task.progress>>),
                      tasks)
  /\ UNCHANGED <<tasks, taskNow, taskSeq, execPc, trail>>
  /\ UNCHANGED notTasks

\* Request bodies: each check of the route passed and failed, a content that
\* is not a string, and a type the route does not know.
Input(fields, text) == <<[fields |-> fields, text |-> text]>>

Bodies ==
  { [type |-> NoType, input |-> Input({"content"}, TRUE)],
    [type |-> "detect", input |-> NoInput],
    [type |-> "detect", input |-> Input({}, TRUE)],
    [type |-> "detect", input |-> Input({"content"}, TRUE)],
    [type |-> "detect", input |-> Input({"content"}, FALSE)],
    [type |-> "generate", input |-> Input({"data"}, TRUE)],
    [type |-> "generate", input |-> Input({"data", "prompt"}, TRUE)],
    [type |-> "evaluate", input |-> Input({"reference"}, TRUE)],
    [type |-> "evaluate", input |-> Input({"generated", "reference"}, TRUE)],
    [type |-> "optimize", input |-> Input({"prompt"}, TRUE)],
    [type |-> "optimize", input |-> Input({"prompt", "evaluation"}, TRUE)],
    [type |-> "translate", input |-> Input({"content"}, TRUE)] }

ServerNext ==
  \/ \E body \in Bodies : PostTask(body, MaxTasks)
  \/ \E id \in TaskIds : LlmReturns(id)
  \/ \E id \in TaskIds : LlmThrows(id)
  \/ \E id \in TaskIds : GetTaskRoute(id)

\* The server over the days: every action the server has, with the clock.
AgingBodies ==
  { [type |-> "detect", input |-> Input({"content"}, TRUE)],
    [type |-> "generate", input |-> Input({"data", "prompt"}, TRUE)] }

AgingNext ==
  \/ TaskTick
  \/ \E body \in AgingBodies : PostTask(body, MaxAgingTasks)
  \/ \E id \in TaskIds : LlmReturns(id)
  \/ \E id \in TaskIds : LlmThrows(id)
  \/ \E id \in TaskIds : GetTaskRoute(id)

\* The queue called directly, as a client of taskQueue other than the API
\* may: createTask, updateTask, deleteTask and cleanupOldTasks.  The trail
\* follows the tasks of the API server only.
CreateTaskCall(type) ==
  /\ taskSeq < MaxTasks
  /\ tasks' = createTask(tasks, taskSeq + 1, type,
                         [fields |-> {}, text |-> TRUE], taskNow)
  /\ response' = <<[call |-> "createTask", task |-> <<tasks'[taskSeq + 1]>>]>>
  /\ taskSeq' = taskSeq + 1
  /\ UNCHANGED <<taskNow, execPc, trail>>
  /\ UNCHANGED notTasks

UpdateTaskCall(id, updates) ==
  /\ tasks' = updateTask(tasks, id, updates, taskNow)
  /\ response' = <<[call |-> "updateTask",
                    task |-> IF id \in DOMAIN tasks THEN <<tasks'[id]>> ELSE <<>>]>>
  /\ UNCHANGED <<taskNow, taskSeq, execPc, trail>>
  /\ UNCHANGED notTasks

DeleteTaskCall(id) ==
  /\ tasks' = MapDelete(tasks, id)
  /\ response' = <<[call |-> "deleteTask", existed |-> id \in DOMAIN tasks]>>
  /\ UNCHANGED <<taskNow, taskSeq, execPc, trail>>
  /\ UNCHANGED notTasks

CleanupCall ==
  /\ tasks' = cleanupOldTasks(tasks, taskNow)
  /\ response' = <<[call |-> "cleanupOldTasks",
                    deleted |-> Cardinality(DOMAIN tasks)
                                - Cardinality(DOMAIN tasks')]>>
  /\ UNCHANGED <<taskNow, taskSeq, execPc, trail>>
  /\ UNCHANGED notTasks

QueueUpdates ==
  { [status |-> "running", progress |-> 10], Succeeded("output") }

QueueNext ==
  \/ TaskTick
  \/ CreateTaskCall("generate")
  \/ \E id \in TaskIds, updates \in QueueUpdates : UpdateTaskCall(id, updates)
  \/ \E id \in TaskIds : DeleteTaskCall(id)
  \/ CleanupCall

----------------------------------------------------------------------------
(* Storage layer (packages/storage): advisory locks per resolved path      *)
(*                                                                         *)
(* One process.  locks is the module-level Map; a path that was never set  *)
(* reads as undefined, which the only test made of it (=== 1) does not     *)
(* tell from 0, so a path starts at 0.  lockWaiters is never written to    *)
(* and stays empty: release() finds no waiter.  Each operation in flight   *)
(* is at one of its awaits: "waiting" is the setTimeout of acquireLock,    *)
(* "inFs" an fs call made while it holds the lock.  Between two awaits an  *)
(* operation runs without another one in between.                          *)

\* How far the clock advances at a time, and how often.  An advance is
\* longer than the 50 ms a waiter sleeps, so a waiter is due after it.
StorageTickMs == 2000
MaxStorageTicks == 3
\* How many operations are called.
MaxOps == 2

\* The default of the constructor and the default of acquireLock.
DefaultLockTimeout == 5000
AcquireDefaultTimeout == 5000
\* A lockTimeout given to the constructor.
CustomLockTimeout == 2000

Paths == {"a", "b"}
OpIds == 1..MaxOps

\* new Storage(options): this.lockTimeout.  options is <<>> where
\* lockTimeout is not given, else <<lockTimeout>>.
LockTimeoutOf(options) ==
  IF options # <<>> /\ options[1] # 0 THEN options[1] ELSE DefaultLockTimeout

IdleOp ==
  [pc |-> "idle", kind |-> "", target |-> "", source |-> "", startTime |-> 0,
   due |-> FALSE, left |-> 0, acquired |-> 0, released |-> 0]

StorageInit ==
  /\ locks = [p \in Paths |-> 0]
  /\ ops = [o \in OpIds |-> IdleOp]
  /\ storageNow = 0
  /\ storageOptions = <<>>

StorageInitConfigured ==
  /\ locks = [p \in Paths |-> 0]
  /\ ops = [o \in OpIds |-> IdleOp]
  /\ storageNow = 0
  /\ storageOptions \in {<<>>, <<CustomLockTimeout>>}

\* The calls made: resolved target, source of a copy or move, and how many
\* fs calls the operation makes under the lock (write with mkdir: mkdir,
\* writeFile; delete: stat, then rm or unlink).
StorageCalls ==
  { [kind |-> "read", target |-> "a", source |-> "", fsCalls |-> 1],
    [kind |-> "write", target |-> "a", source |-> "", fsCalls |-> 2],
    [kind |-> "delete", target |-> "a", source |-> "", fsCalls |-> 2],
    [kind |-> "copy", target |-> "b", source |-> "a", fsCalls |-> 1],
    [kind |-> "move", target |-> "b", source |-> "a", fsCalls |-> 1] }

StorageTick ==
  /\ storageNow < MaxStorageTicks * StorageTickMs
  /\ storageNow' = storageNow + StorageTickMs
  /\ ops' = [o \in OpIds |->
               IF ops[o].pc = "waiting" THEN [ops[o] EXCEPT !.due = TRUE]
               ELSE ops[o]]
  /\ UNCHANGED <<locks, storageOptions>>
  /\ UNCHANGED notStorage

\* One turn of the loop of acquireLock for an operation: the test of the
\* lock, then either the lock taken, or the timeout thrown, or the sleep.
\* startTime is a local of acquireLock and is gone when it returns or throws.
AcquireTurn(op, lk, now, timeout) ==
  IF lk[op.target] = 1
  THEN IF now - op.startTime > timeout
       THEN [op |-> [op EXCEPT !.pc = "timedout", !.due = FALSE,
                               !.startTime = 0],
             lk |-> lk]
       ELSE [op |-> [op EXCEPT !.pc = "waiting", !.due = FALSE], lk |-> lk]
  ELSE [op |-> [op EXCEPT !.pc = "inFs", !.due = FALSE, !.startTime = 0,
                          !.acquired = @ + 1],
        lk |-> [lk EXCEPT ![op.target] = 1]]

\* read, write, delete, copy or move is called: resolve, then acquireLock
\* with the path alone, so with the default of its timeout parameter.
StorageCall(o, call) ==
  /\ ops[o].pc = "idle"
  /\ \A earlier \in OpIds : earlier < o => ops[earlier].pc # "idle"
  /\ LET begun == [IdleOp EXCEPT !.kind = call.kind, !.target = call.target,
                                 !.source = call.source, !.left = call.fsCalls,
                                 !.startTime = storageNow]
         turn == AcquireTurn(begun, locks, storageNow, AcquireDefaultTimeout)
     IN  /\ ops' = [ops EXCEPT ![o] = turn.op]
         /\ locks' = turn.lk
  /\ UNCHANGED <<storageNow, storageOptions>>
  /\ UNCHANGED notStorage

\* The setTimeout of a waiter fires: the next turn of its loop.
Poll(o) ==
  /\ ops[o].pc = "waiting"
  /\ ops[o].due
  /\ LET turn == AcquireTurn(ops[o], locks, storageNow, AcquireDefaultTimeout)
     IN  /\ ops' = [ops EXCEPT ![o] = turn.op]
         /\ locks' = turn.lk
  /\ UNCHANGED <<storageNow, storageOptions>>
  /\ UNCHANGED notStorage

\* lock.release()
Release(lk, path) == [lk EXCEPT ![path] = 0]

\* An fs call of the operation returns: the next fs call, or the finally.
FsReturns(o) ==
  /\ ops[o].pc = "inFs"
  /\ IF ops[o].left > 1
     THEN /\ ops' = [ops EXCEPT ![o].left = @ - 1]
          /\ UNCHANGED locks
     ELSE /\ ops' = [ops EXCEPT ![o].pc = "done", ![o].left = 0,
                                ![o].released = @ + 1]
          /\ locks' = Release(locks, ops[o].target)
  /\ UNCHANGED <<storageNow, storageOptions>>
  /\ UNCHANGED notStorage

FsThrowsKeepingLock(o) ==
  /\ ops[o].pc = "inFs"
  /\ ops' = [ops EXCEPT ![o].pc = "failed", ![o].left = 0]
  /\ UNCHANGED <<locks, storageNow, storageOptions>>
  /\ UNCHANGED notStorage

\* An fs call of the operation throws: the finally, then the rejection.
FsThrows(o) ==
  /\ ops[o].pc = "inFs"
  /\ ops' = [ops EXCEPT ![o].pc = "failed", ![o].left = 0,
                         ![o].released = @ + 1]
  /\ locks' = Release(locks, ops[o].target)
  /\ UNCHANGED <<storageNow, storageOptions>>
  /\ UNCHANGED notStorage

StorageNext ==
  \/ StorageTick
  \/ \E o \in OpIds, call \in StorageCalls : StorageCall(o, call)
  \/ \E o \in OpIds : Poll(o)
  \/ \E o \in OpIds : FsReturns(o)
  \/ \E o \in OpIds : FsThrows(o)

----------------------------------------------------------------------------
(* Specifications: one per component; the others' state stays as it is.    *)

vars ==
  <<detectVars, gatewayVars, loggerVars, versionVars, taskVars, storageVars,
    cliVars, suggestVars, downloadVars>>

Init ==
  /\ DetectInit /\ GatewayUnused /\ LoggerInit /\ VersionsInit /\ TasksInit
  /\ StorageInit /\ CommandsInit /\ SuggestInit /\ DownloadInit

InitGateway ==
  /\ DetectInit /\ GatewayInit /\ LoggerInit /\ VersionsInit /\ TasksInit
  /\ StorageInit /\ CommandsInit /\ SuggestInit /\ DownloadInit

InitVersions ==
  /\ DetectInit /\ GatewayUnused /\ LoggerInit /\ VersionsInitWithDefault
  /\ TasksInit /\ StorageInit /\ CommandsInit /\ SuggestInit /\ DownloadInit

SpecDetect == Init /\ [][DetectNext]_vars

SpecGateway == InitGateway /\ [][GatewayNext]_vars

SpecLogger == Init /\ [][LoggerNext]_vars

SpecInsight == Init /\ [][InsightNext]_vars

SpecEvaluations == Init /\ [][EvaluationsNext]_vars

SpecEvaluate == Init /\ [][EvaluateNext]_vars

SpecVersions == InitVersions /\ [][VersionsNext]_vars

SpecRacingSaves == Init /\ [][RacingNext]_vars

SpecDownload == Init /\ [][DownloadNext]_vars

InitStorage ==
  /\ DetectInit /\ GatewayUnused /\ LoggerInit /\ VersionsInit /\ TasksInit
  /\ StorageInitConfigured /\ CommandsInit /\ SuggestInit /\ DownloadInit

SpecStorage == InitStorage /\ [][StorageNext]_vars

InitSuggest ==
  /\ DetectInit /\ GatewayUnused /\ LoggerInit /\ VersionsInit /\ TasksInit
  /\ StorageInit /\ CommandsInit /\ SuggestInitAny /\ DownloadInit

SpecSuggest == InitSuggest /\ [][SuggestNext]_vars

SpecCommands == Init /\ [][CommandsNext]_vars

SpecTaskQueue == Init /\ [][QueueNext]_vars

\* The API server.  The event loop runs a callback that is ready, so an
\* engine call that returns or throws resumes its executeTask.
SpecServer ==
  /\ Init
  /\ [][ServerNext]_vars
  /\ \A id \in TaskIds : WF_vars(LlmReturns(id) \/ LlmThrows(id))

\* The API server left running: the clock goes on as well.
SpecAgingServer ==
  /\ Init
  /\ [][AgingNext]_vars
  /\ WF_vars(TaskTick)
  /\ \A id \in TaskIds : WF_vars(LlmReturns(id) \/ LlmThrows(id))

----------------------------------------------------------------------------
(* Properties of the classifier                                            *)

SceneNames(table) == {table[i].scene : i \in 1..Len(table)}
IndexOf(table, s) == CHOOSE i \in 1..Len(table) : table[i].scene = s
KeywordSet(table, s) ==
  LET ks == table[IndexOf(table, s)].keywords IN {ks[i] : i \in 1..Len(ks)}
Present(table, s, text) == {k \in KeywordSet(table, s) : Includes(text, k)}
NoKeywordMatches(table, text) ==
  \A s \in SceneNames(table) : Present(table, s, text) = {}
MaxScore(scores) ==
  CHOOSE m \in {scores[s] : s \in DOMAIN scores} :
    \A s \in DOMAIN scores : scores[s] <= m

\* C1: a text that contains no declared keyword is classified as the
\* fallback scene product/weekly with keywords exactly ["会议"], by the
\* library's detectScene and by the engine's detect.
C1_NoMatchGivesFallback ==
  /\ (libResult # <<>> /\ NoKeywordMatches(SCENE_KEYWORDS_lib, content))
       => /\ libResult[1].scene = "product/weekly"
          /\ libResult[1].keywords = FallbackKeywords
  /\ (engineResult # <<>> /\ NoKeywordMatches(SCENE_KEYWORDS_engine, content))
       => /\ engineResult[1].scene = "product/weekly"
          /\ engineResult[1].keywords = FallbackKeywords

\* The confidence the original C2 expects: min(maxScore / 3, 1).
MinScoreOverThree(r) ==
  LET m == MaxScore(r.allScores)
  IN  IF m >= 3 THEN <<1, 1>> ELSE <<m, 3>>

\* C2 as stated: the confidence is min(maxScore / 3, 1) for every text, so 0
\* for a text that matches nothing.
C2_ConfidenceIsMinOriginal ==
  /\ libResult # <<>>
       => RatEq(libResult[1].confidence, MinScoreOverThree(libResult[1]))
  /\ engineResult # <<>>
       => RatEq(engineResult[1].confidence, MinScoreOverThree(engineResult[1]))

C2_Expected(r) ==
  IF MaxScore(r.allScores) = 0 THEN RatEq(r.confidence, <<3, 10>>)
  ELSE RatEq(r.confidence, MinScoreOverThree(r))

\* C2 as amended: the confidence is min(maxScore / 3, 1) when some keyword
\* matches (maxScore > 0) and the literal 0.3 when none does (maxScore = 0).
C2_Confidence ==
  /\ libResult # <<>> => C2_Expected(libResult[1])
  /\ engineResult # <<>> => C2_Expected(engineResult[1])

\* A text that matches nothing was classified, with confidence 0.3.
C2_Witness ==
  /\ libResult # <<>>
  /\ MaxScore(libResult[1].allScores) = 0
  /\ libResult[1].confidence = <<3, 10>>
  /\ engineResult # <<>>
  /\ MaxScore(engineResult[1].allScores) = 0

C3_Bounded(r) ==
  /\ ~RatLess(r.confidence, <<0, 1>>)
  /\ ~RatLess(<<1, 1>>, r.confidence)
  /\ Len(r.keywords) <= 5

\* C3: every result has 0 <= confidence <= 1 and at most 5 keywords.
C3_ConfidenceAndKeywordBounds ==
  /\ libResult # <<>> => C3_Bounded(libResult[1])
  /\ engineResult # <<>> => C3_Bounded(engineResult[1])

\* The best scene matched more than 5 keywords and 5 were returned, with
\* the confidence capped at 1.
C3_Witness ==
  /\ libResult # <<>>
  /\ libResult[1].allScores[libResult[1].scene] > 5
  /\ Len(libResult[1].keywords) = 5
  /\ RatEq(libResult[1].confidence, <<1, 1>>)

C4_CountsDistinct(table, r, text) ==
  \A s \in SceneNames(table) :
     /\ r.allScores[s] = Cardinality(Present(table, s, text))
     /\ r.allScores[s] <= Len(table[IndexOf(table, s)].keywords)

\* Every scene's score is the number of distinct declared keywords of the
\* scene that occur in the text.
C4_ScoreIsDistinctCount ==
  /\ libResult # <<>> => C4_CountsDistinct(SCENE_KEYWORDS_lib, libResult[1], content)
  /\ engineResult # <<>>
       => C4_CountsDistinct(SCENE_KEYWORDS_engine, engineResult[1], content)

\* The step appends one more occurrence of p, a keyword of scene s that the
\* text already contains.
RepeatsKeyword(table, s, p) ==
  /\ content' = content \o p
  /\ p \in KeywordSet(table, s)
  /\ Includes(content, p)

\* A keyword of s other than p that the old text lacks and the new text has:
\* its occurrence runs across the junction of the old text and p.
CompletedAcrossJunction(table, s, p) ==
  \E k \in KeywordSet(table, s) :
     k # p /\ ~Includes(content, k) /\ Includes(content', k)

C4_RepeatUnchanged ==
  \A p \in Vocabulary :
     /\ \A s \in SceneNames(SCENE_KEYWORDS_lib) :
          RepeatsKeyword(SCENE_KEYWORDS_lib, s, p)
            => detectScene(content').allScores[s] = detectScene(content).allScores[s]
     /\ \A s \in SceneNames(SCENE_KEYWORDS_engine) :
          RepeatsKeyword(SCENE_KEYWORDS_engine, s, p)
            => detect(content').allScores[s] = detect(content).allScores[s]

C4_RepeatUnchangedUnlessCompleted ==
  \A p \in Vocabulary :
     /\ \A s \in SceneNames(SCENE_KEYWORDS_lib) :
          RepeatsKeyword(SCENE_KEYWORDS_lib, s, p)
            => /\ detectScene(content').allScores[s] >= detectScene(content).allScores[s]
               /\ \/ detectScene(content').allScores[s] = detectScene(content).allScores[s]
                  \/ CompletedAcrossJunction(SCENE_KEYWORDS_lib, s, p)
     /\ \A s \in SceneNames(SCENE_KEYWORDS_engine) :
          RepeatsKeyword(SCENE_KEYWORDS_engine, s, p)
            => /\ detect(content').allScores[s] >= detect(content).allScores[s]
               /\ \/ detect(content').allScores[s] = detect(content).allScores[s]
                  \/ CompletedAcrossJunction(SCENE_KEYWORDS_engine, s, p)

\* C4 as stated: every score is the number of distinct declared keywords
\* that occur in the text, and adding a further occurrence of a keyword that
\* already matched leaves the score of its scene unchanged.
C4_ScoresOriginal ==
  [](C4_ScoreIsDistinctCount) /\ [][C4_RepeatUnchanged]_vars

\* C4 as amended: every score is the number of distinct declared keywords
\* that occur in the text (so at most the list length, and a function of
\* which keywords are present only); appending a further occurrence of a
\* keyword that already matched never lowers the score of its scene, and
\* leaves it unchanged unless the appended text completes, across the
\* junction with the old text, another keyword of that scene that was
\* absent before.
C4_Scores ==
  [](C4_ScoreIsDistinctCount) /\ [][C4_RepeatUnchangedUnlessCompleted]_vars

\* A classified text in which a keyword occurs twice and counts once.
C4_Witness ==
  /\ libResult # <<>>
  /\ engineResult # <<>>
  /\ \E s \in SceneNames(SCENE_KEYWORDS_lib) :
       \E k \in KeywordSet(SCENE_KEYWORDS_lib, s) :
          /\ Occurrences(content, k) >= 2
          /\ libResult[1].allScores[s] = 1
          /\ engineResult[1].allScores[s] = 1

C5_IsMaximal(r) == r.allScores[r.scene] = MaxScore(r.allScores)

\* C5: when at least one keyword matches, the returned scene has the maximal
\* score; among several maximal scenes detectScene returns the first in
\* declaration order and the engine's detect returns the last.
C5_MaximalSceneAndTieBreak ==
  /\ (libResult # <<>> /\ MaxScore(libResult[1].allScores) >= 1)
       => /\ C5_IsMaximal(libResult[1])
          /\ \A j \in 1..(IndexOf(SCENE_KEYWORDS_lib, libResult[1].scene) - 1) :
                libResult[1].allScores[SCENE_KEYWORDS_lib[j].scene]
                  < MaxScore(libResult[1].allScores)
  /\ (engineResult # <<>> /\ MaxScore(engineResult[1].allScores) >= 1)
       => /\ C5_IsMaximal(engineResult[1])
          /\ \A j \in (IndexOf(SCENE_KEYWORDS_engine, engineResult[1].scene) + 1)
                         .. Len(SCENE_KEYWORDS_engine) :
                engineResult[1].allScores[SCENE_KEYWORDS_engine[j].scene]
                  < MaxScore(engineResult[1].allScores)

\* Two scenes tie at the maximum and the two implementations disagree.
C5_Witness ==
  /\ libResult # <<>>
  /\ engineResult # <<>>
  /\ libResult[1].allScores = engineResult[1].allScores
  /\ MaxScore(libResult[1].allScores) >= 1
  /\ libResult[1].scene # engineResult[1].scene
  /\ IndexOf(SCENE_KEYWORDS_lib, libResult[1].scene)
       < IndexOf(SCENE_KEYWORDS_lib, engineResult[1].scene)

----------------------------------------------------------------------------
(* Properties of the LLM gateway                                           *)

Finished == gwPc \in {"returned", "threw"}

\* The model key is not registered, or the variable holding its credential
\* is not set.
Misconfigured ==
  \/ gwCall.model \notin DOMAIN MODELS
  \/ MODELS[gwCall.model].apiKeyEnv \notin env

\* C6: an invocation whose model key is not in the registry, or whose
\* credential variable is unset, fails with a configuration error before any
\* HTTP request is issued; for an unknown key the message lists the
\* supported keys.
C6_ConfigurationErrorFirst ==
  (gwPc # "idle" /\ Misconfigured)
    => /\ gwPc = "threw"
       /\ gwRequests = 0
       /\ gwOutcome.error \in {"UnsupportedModel", "ApiKeyNotSet"}
       /\ gwCall.model \notin DOMAIN MODELS
            => /\ gwOutcome.error = "UnsupportedModel"
               /\ gwOutcome.listsSupported

\* C7: generate fails whenever the 2xx body lacks choices[0].message.content
\* and never returns successfully with an undefined content.  (Any exception
\* is taken for the protocol error here.)
C7_GenerateNeedsContent ==
  (gwCall.op = "generate" /\ Finished /\ gwBody \in LacksContent)
    => /\ gwPc = "threw"
       /\ gwOutcome.kind = "error"
       /\ gwOutcome.content # "undefined"

\* C8: at every suspension point of a gateway call the timeout timer is
\* armed, so a provider that stalls there is cut off by the timer.
C8_TimerCoversEverySuspension ==
  gwPc \in {"fetching", "readingErrorBody", "readingJson"} => gwTimer = "armed"

----------------------------------------------------------------------------
(* Properties of the Logger                                                *)

AllLines ==
  {<<f, i>> : f \in LogCommands \X LogDates, i \in 1..MaxStarts}

\* How many lines of the command files hold the entry with this id.
LinesOf(id) ==
  Cardinality({x \in AllLines :
                 /\ x[2] <= Len(commandFiles[x[1]])
                 /\ commandFiles[x[1]][x[2]].id = id})

\* Every entry start() opened is the open one or was written exactly once,
\* and no written line is pending.
C10_EveryEntryFinalizedOnce ==
  /\ \A id \in 1..opened :
       IF currentLog # <<>> /\ currentLog[1].id = id
       THEN LinesOf(id) = 0
       ELSE LinesOf(id) = 1
  /\ \A f \in LogCommands \X LogDates :
       \A i \in 1..Len(commandFiles[f]) :
          commandFiles[f][i].status \in {"success", "error"}

\* An end() that finds no open entry appends nothing.
C10_IdleEndAppendsNothing ==
  (currentLog = <<>> /\ opened' = opened /\ logNow' = logNow)
    => commandFiles' = commandFiles

\* C10: for every sequence of start/end calls on one Logger, every entry
\* start() opened is finalized exactly once: each start/end pair appends
\* exactly one line, with status success or error, and an end() with no open
\* entry appends nothing.
C10_FinalizedExactlyOnce ==
  [](C10_EveryEntryFinalizedOnce) /\ [][C10_IdleEndAppendsNothing]_vars

----------------------------------------------------------------------------
(* Properties of the log files                                             *)

IsPrefix(a, b) == Len(a) <= Len(b) /\ SubSeq(b, 1, Len(a)) = a

\* A step in which the Logger call op returned.  Tick alone moves the clock.
Called(op) ==
  /\ logNow' = logNow
  /\ logResult' # NoResult
  /\ logResult'[1].op = op

\* The previous content of every log file is a prefix of its new content.
C11_PrefixKept ==
  /\ \A f \in LogCommands \X LogDates :
       IsPrefix(commandFiles[f], commandFiles'[f])
  /\ \A d \in LogDates : IsPrefix(evaluationFiles[d], evaluationFiles'[d])

\* The step adds exactly one line to exactly one command file.
C11_OneCommandLine ==
  /\ evaluationFiles' = evaluationFiles
  /\ \E f \in LogCommands \X LogDates :
       /\ Len(commandFiles'[f]) = Len(commandFiles[f]) + 1
       /\ \A g \in (LogCommands \X LogDates) \ {f} :
            commandFiles'[g] = commandFiles[g]

\* The step adds exactly one line to exactly one evaluation file.
C11_OneEvaluationLine ==
  /\ commandFiles' = commandFiles
  /\ \E d \in LogDates :
       /\ Len(evaluationFiles'[d]) = Len(evaluationFiles[d]) + 1
       /\ \A e \in LogDates \ {d} : evaluationFiles'[e] = evaluationFiles[e]

C11_ReadersChangeNothing ==
  (Called("getStats") \/ Called("query") \/ Called("getEvaluationStats"))
    => (commandFiles' = commandFiles /\ evaluationFiles' = evaluationFiles)

\* C11 as stated: the log store is append-only: after any Logger operation
\* the previous content of every log file is a prefix of its new content;
\* end and saveEvaluation add exactly one line to exactly one file, and
\* getStats, query and getEvaluationStats leave every file unchanged.
C11_AppendOnlyOriginal ==
  [][/\ C11_PrefixKept
     /\ Called("end") => C11_OneCommandLine
     /\ Called("saveEvaluation") => C11_OneEvaluationLine
     /\ C11_ReadersChangeNothing]_vars

\* C11 as amended: as above, except that end adds its one line only when an
\* entry is open; an end that finds none leaves every file unchanged.
C11_AppendOnly ==
  [][/\ C11_PrefixKept
     /\ Called("end") =>
          IF currentLog # <<>>
          THEN C11_OneCommandLine
          ELSE commandFiles' = commandFiles /\ evaluationFiles' = evaluationFiles
     /\ Called("saveEvaluation") => C11_OneEvaluationLine
     /\ C11_ReadersChangeNothing]_vars

\* A reader returned an entry that end wrote as the second line of its file,
\* and saveEvaluation has written a line.
C11_Witness ==
  /\ logResult # NoResult
  /\ logResult[1].op = "query"
  /\ \E f \in LogCommands \X LogDates : Len(commandFiles[f]) = 2
  /\ \E d \in LogDates : evaluationFiles[d] # <<>>

----------------------------------------------------------------------------
(* Properties of the readers of the command log                            *)

\* The last n elements of s, all of s where it has fewer.
Trailing(s, n) ==
  SubSeq(s, Len(s) - (IF n < Len(s) THEN n ELSE Len(s)) + 1, Len(s))

\* The entries of the command files in file-scan order.
ScannedEntries == ReadLines(commandFiles, readdirSync(commandFiles, CommandFileNames))

\* The entry satisfies every filter that is supplied.
C12_Satisfies(filters, entry) ==
  /\ filters.command # NoCommand => entry.command = filters.command
  /\ filters.status # "" => entry.status = filters.status
  /\ filters.startDate # Absent => entry.timestamp >= filters.startDate[1]
  /\ filters.endDate # Absent => entry.timestamp <= filters.endDate[1]

\* C12: for every filters value (including limit = 0), query returns at most
\* `limit` entries (at most 100 when limit is absent); every returned entry
\* satisfies all supplied filters; and the result is the trailing `limit`
\* matching entries in file-scan order.
C12_QueryResult ==
  (logResult # NoResult /\ logResult[1].op = "query") =>
    LET filters == logResult[1].filters
        value == logResult[1].value
        limit == IF filters.limit = Absent THEN DefaultLimit
                 ELSE filters.limit[1]
        matching == SelectSeq(ScannedEntries,
                              LAMBDA e : C12_Satisfies(filters, e))
    IN  /\ Len(value) <= limit
        /\ \A i \in 1..Len(value) : C12_Satisfies(filters, value[i])
        /\ value = Trailing(matching, limit)

\* C13: getStats(command, days) returns {0,0,0,0} when there are no log
\* files; otherwise, for every days >= 0, it counts exactly the entries
\* (restricted to `command` when given) found in the last
\* min(days, number of files) files of the directory listing, with
\* successCount + errorCount <= totalCommands and
\* avgDuration = round(sum of durations / totalCommands).
C13_StatsResult ==
  (logResult # NoResult /\ logResult[1].op = "getStats") =>
    LET command == logResult[1].command
        days == logResult[1].days
        value == logResult[1].value
        listing == readdirSync(commandFiles, CommandFileNames)
        entries == ReadLines(commandFiles, Trailing(listing, days))
        counted == SelectSeq(entries,
                     LAMBDA e : command # NoCommand => e.command = command)
        With(status) == Len(SelectSeq(counted, LAMBDA e : e.status = status))
    IN  IF listing = <<>>
        THEN value = [totalCommands |-> 0, successCount |-> 0,
                      errorCount |-> 0, avgDuration |-> 0]
        ELSE /\ value.totalCommands = Len(counted)
             /\ value.successCount = With("success")
             /\ value.errorCount = With("error")
             /\ value.successCount + value.errorCount <= value.totalCommands
             /\ value.avgDuration =
                  IF counted = <<>> THEN 0
                  ELSE MathRound(TotalDuration(counted), Len(counted))

\* C14: calculateDailyTrends returns one record per distinct calendar date
\* among the queried entries, sorted strictly ascending by date and
\* truncated to the trailing `days` records; each record satisfies
\* total = success + error, total >= 1, and
\* successRate = round(success/total*100), which lies in [0,100].
C14_TrendsResult ==
  (logResult # NoResult /\ logResult[1].op = "calculateDailyTrends") =>
    LET command == logResult[1].command
        days == logResult[1].days
        value == logResult[1].value
        queried == SelectSeq(ScannedEntries,
                     LAMBDA e : command # NoCommand => e.command = command)
        dates == {DateOf(queried[i].timestamp) : i \in 1..Len(queried)}
        \* the dates of the trailing `days` records: the `days` latest
        kept == {d \in dates :
                   Cardinality({e \in dates : e > d}) < days}
    IN  /\ {value[i].date : i \in 1..Len(value)} = kept
        /\ \A i \in 1..(Len(value) - 1) : value[i].date < value[i + 1].date
        /\ \A i \in 1..Len(value) :
             /\ value[i].total = value[i].success + value[i].error
             /\ value[i].total >= 1
             /\ value[i].total =
                  Len(SelectSeq(queried,
                        LAMBDA e : DateOf(e.timestamp) = value[i].date))
             /\ value[i].successRate =
                  MathRound(value[i].success * 100, value[i].total)
             /\ value[i].successRate \in 0..100

----------------------------------------------------------------------------
(* Properties of the evaluation log                                        *)

\* What a record contributes: its scores.total, the legacy key only where
\* it has no scores.total, and 0 where it has neither.
C15_Contribution(record) ==
  IF ScoreAt(record.scores, "total") # <<>>
  THEN ScoreAt(record.scores, "total")[1]
  ELSE IF ScoreAt(record.scores, "legacyTotal") # <<>>
       THEN ScoreAt(record.scores, "legacyTotal")[1]
       ELSE 0

RECURSIVE C15_Sum(_)
C15_Sum(records) ==
  IF records = <<>> THEN 0
  ELSE C15_Contribution(Head(records)) + C15_Sum(Tail(records))

\* C15: getEvaluationStats returns exactly one record per scene present in
\* the scanned evaluation records, with count = number of that scene's
\* records and avgScore = the mean of scores.total over them, the legacy key
\* being used only for records that have no scores.total (a record whose
\* scores.total is 0 contributes 0).
C15_SceneStats ==
  (logResult # NoResult /\ logResult[1].op = "getEvaluationStats") =>
    LET scene == logResult[1].scene
        value == logResult[1].value
        files == SliceFrom(readdirSync(evaluationFiles, EvaluationFileNames),
                           -logResult[1].days)
        scanned == SelectSeq(ReadLines(evaluationFiles, files),
                             LAMBDA r : scene # "" => r.scene = scene)
        Of(s) == SelectSeq(scanned, LAMBDA r : r.scene = s)
    IN  /\ {value[i].scene : i \in 1..Len(value)}
             = {scanned[i].scene : i \in 1..Len(scanned)}
        /\ \A i, j \in 1..Len(value) :
             value[i].scene = value[j].scene => i = j
        /\ \A i \in 1..Len(value) :
             /\ value[i].count = Len(Of(value[i].scene))
             /\ RatEq(value[i].avgScore,
                      <<C15_Sum(Of(value[i].scene)), Len(Of(value[i].scene))>>)

\* How many lines of the evaluation files the evaluate invocation r wrote.
RecordsOf(r) ==
  Cardinality({x \in LogDates \X (1..MaxEvaluations) :
                 /\ x[2] <= Len(evaluationFiles[x[1]])
                 /\ evaluationFiles[x[1]][x[2]].run = r})

\* How many invocations so far ended this way.
Ended(outcome) ==
  Cardinality({r \in 1..Len(evalOutcome) : evalOutcome[r] = outcome})

\* How many generic entries of the evaluate command have this status.
EvaluateEntries(status) ==
  Cardinality({x \in AllLines :
                 /\ x[2] <= Len(commandFiles[x[1]])
                 /\ commandFiles[x[1]][x[2]].command = "evaluate"
                 /\ commandFiles[x[1]][x[2]].status = status})

\* C16 as stated: every evaluate command invocation appends exactly one
\* Evaluation Log Record to the evaluations stream (never zero, never more
\* than one), in addition to and independently of its generic command Log
\* Entry.
C16_ExactlyOneRecordOriginal ==
  \A r \in 1..Len(evalOutcome) : RecordsOf(r) = 1

\* C16 as amended: an evaluate invocation appends at most one Evaluation Log
\* Record: exactly one when it succeeds, none when it fails, none while it
\* awaits the model, and none in the engine CLI; the CLI's generic Log Entry
\* is written in either case, the engine CLI writes none.
C16_OneRecordPerSuccess ==
  /\ \A r \in 1..Len(evalOutcome) :
       RecordsOf(r) = IF evalOutcome[r] = "success" THEN 1 ELSE 0
  /\ RecordsOf(Len(evalOutcome) + 1) = 0
  /\ EvaluateEntries("success") = Ended("success")
  /\ EvaluateEntries("error") = Ended("error")
  /\ EvaluateEntries("pending") = 0

\* One invocation succeeded and wrote its record, and one failed.
C16_Witness ==
  /\ Ended("success") >= 1
  /\ Ended("error") >= 1

----------------------------------------------------------------------------
(* Properties of the prompt version store                                  *)

\* The saves of the scene that returned, in order.
SavedTo(scene) == SelectSeq(saveHistory, LAMBDA h : h.scene = scene)

\* No save is in progress.
Quiet == \A p \in Savers : saver[p].pc = "idle"

\* C17: for every N >= 1, saving N times in sequence to an empty scene
\* directory creates version files v1..vN (the k-th save returns version k),
\* and afterwards the index record of the scene lists exactly v1..vN in that
\* order with current_version = "vN".
C17_SequentialNumbering ==
  \A scene \in SCENES :
    LET saved == SavedTo(scene)
        N == Len(saved)
    IN  /\ \A k \in 1..N : saved[k].version = k
        /\ (Quiet /\ N >= 1) =>
             /\ {f \in DOMAIN promptFiles[scene] : IsVersionFile(f)}
                  = {VersionFile(k) : k \in 1..N}
             /\ promptIndex # <<>>
             /\ scene \in DOMAIN promptIndex[1].scenes
             /\ LET record == promptIndex[1].scenes[scene]
                IN  /\ Len(record.versions) = N
                    /\ \A k \in 1..N : record.versions[k].id = VersionId(k)
                    /\ record.current_version = <<VersionId(N)>>

\* Ten saves to a directory that was empty have returned.
C17_Witness ==
  /\ Quiet
  /\ Len(SavedTo("product/weekly")) >= 10
  /\ DefaultFile \notin DOMAIN promptFiles["product/weekly"]

\* C18: round-trip: for every number of previously saved versions (including
\* 10 or more), after save(scene, content, note) a get(scene) with no
\* version argument resolves to the most recently saved version and yields
\* content identical to `content`, provided no default.md exists in the
\* scene directory.
C18_SaveThenGet ==
  (/\ versionResult # <<>>
   /\ versionResult[1].op = "get"
   /\ versionResult[1].version = <<>>
   /\ SavedTo(versionResult[1].scene) # <<>>
   /\ DefaultFile \notin DOMAIN promptFiles[versionResult[1].scene]) =>
    LET scene == versionResult[1].scene
        value == versionResult[1].value
        last == SavedTo(scene)[Len(SavedTo(scene))]
    IN  /\ value.ok
        /\ value.file = VersionFile(last.version)
        /\ promptFiles[scene][value.file] = last.content

\* C19: list(scene) returns every saved version of the scene exactly once,
\* sorted by version descending (newest version first), for any number of
\* saved versions; it returns the empty list when the scene directory does
\* not exist.
C19_ListNewestFirst ==
  (versionResult # <<>> /\ versionResult[1].op = "list") =>
    LET scene == versionResult[1].scene
        value == versionResult[1].value
        N == Len(SavedTo(scene))
    IN  IF scene \notin promptDirs THEN value = <<>>
        ELSE /\ Len(value) = N
             /\ \A i \in 1..N : value[i].version = VersionId(N - i + 1)

\* No two saves of a scene returned the same version number.
C20_NumbersDistinct ==
  \A i, j \in 1..Len(saveHistory) :
    (/\ i # j
     /\ saveHistory[i].scene = saveHistory[j].scene)
      => saveHistory[i].version # saveHistory[j].version

\* A step keeps every file there is, with its content, and a save writes
\* its version file under a name the directory does not hold.
C20_FilesKept ==
  /\ \A s \in SCENES :
       \A f \in DOMAIN promptFiles[s] :
          /\ f \in DOMAIN promptFiles'[s]
          /\ promptFiles'[s][f] = promptFiles[s][f]
  /\ \A p \in Savers :
       (saver[p].pc = "counted" /\ saver'[p].pc = "written")
         => VersionFile(saver[p].nextVersion)
              \notin DOMAIN promptFiles[saver[p].scene]

\* C20: version numbers are append-only per scene under any interleaving of
\* save invocations, including two saves to the same scene running
\* concurrently in separate processes: every save obtains a version number
\* no earlier save obtained, and no existing version file is ever
\* overwritten, deleted or renumbered.
C20_AppendOnlyVersions ==
  [](C20_NumbersDistinct) /\ [][C20_FilesKept]_vars

----------------------------------------------------------------------------
(* Properties of the task queue and the REST API                           *)

\* C21: every task of the running API server that is not running and was
\* created more than 24 hours ago is eventually removed from the task map,
\* and no step removes a task whose status is running.
C21_Collected ==
  /\ \A id \in TaskIds :
       (id \in DOMAIN tasks /\ tasks[id].status # "running"
          /\ taskNow - tasks[id].createdAt > DayMs)
       ~> (id \notin DOMAIN tasks)
  /\ [][\A id \in DOMAIN tasks :
          tasks[id].status = "running" => id \in DOMAIN tasks']_vars

Terminal == {"success", "failed"}

\* The ways a status may have moved so far.
StatusPaths ==
  { <<"pending">>, <<"pending", "running">>,
    <<"pending", "running", "success">>, <<"pending", "running", "failed">> }

\* C26: a task's status has moved along pending -> running -> (success |
\* failed) only; success and failed never change again; success comes with
\* progress 100 and an output, failed with progress 0 and an error; and
\* a step of one task's execution leaves every other task's record as it is.
C26_StatusMachine ==
  /\ [](\A id \in DOMAIN tasks :
          /\ id \in DOMAIN trail
          /\ trail[id] \in StatusPaths
          /\ tasks[id].status = trail[id][Len(trail[id])]
          /\ tasks[id].status = "success"
               => tasks[id].progress = 100 /\ "output" \in DOMAIN tasks[id]
          /\ tasks[id].status = "failed"
               => tasks[id].progress = 0 /\ "error" \in DOMAIN tasks[id])
  /\ [][\A id \in DOMAIN tasks :
          /\ tasks[id].status \in Terminal
               => id \in DOMAIN tasks' /\ tasks'[id].status = tasks[id].status
          /\ \A other \in TaskIds \ {id} :
               (IF other \in DOMAIN execPc
                THEN execPc'[other] # execPc[other]
                ELSE other \in DOMAIN execPc')
               => id \in DOMAIN tasks' /\ tasks'[id] = tasks[id]]_vars

\* Task 2 has run to its end while task 1 is still awaiting its engine call.
C26_Witness ==
  /\ DOMAIN tasks = {1, 2}
  /\ tasks[1].status = "running"
  /\ tasks[2].type \in Awaited
  /\ tasks[2].status = "failed"

Required(type) ==
  IF type = "detect" THEN {"content"}
  ELSE IF type = "generate" THEN {"data", "prompt"}
  ELSE IF type = "evaluate" THEN {"generated", "reference"}
  ELSE IF type = "optimize" THEN {"prompt", "evaluation"}
  ELSE {}

Settles ==
  /\ \A id \in TaskIds :
       (id \in DOMAIN tasks)
       ~> (id \in DOMAIN tasks /\ tasks[id].status \in Terminal)
  /\ [][\A id \in DOMAIN tasks :
          tasks[id].status \in Terminal
          => id \in DOMAIN tasks' /\ tasks'[id].status = tasks[id].status]_vars

\* C27 as stated: every task created through POST /api/v1/tasks eventually
\* is success or failed and stays so, and the status in the POST response
\* and in every GET /api/v1/tasks/:id response is the status the map holds
\* for the task when the response is made.
C27_SettlesAndReportsOriginal ==
  /\ Settles
  /\ [](response # <<>> /\ response[1].stored # <<>>
        => /\ response[1].envelope.status = response[1].stored[1]
           /\ response[1].envelope.data[1].status = response[1].stored[1])

\* C27 as amended: every task created through POST /api/v1/tasks eventually
\* is success or failed and stays so; the status in every GET
\* /api/v1/tasks/:id response is the status the map holds for the task when
\* the response is made, and the POST response reports pending, the status
\* the task was created with.
C27_SettlesAndReports ==
  /\ Settles
  /\ [](response # <<>> /\ response[1].stored # <<>>
        => IF response[1].route = "GET /api/v1/tasks/:id"
           THEN /\ response[1].envelope.status = response[1].stored[1]
                /\ response[1].envelope.data[1].status = response[1].stored[1]
           ELSE /\ response[1].envelope.status = "pending"
                /\ response[1].envelope.data[1].status = "pending")

\* A GET reports the end of a task that awaited its engine call.
C27_Witness ==
  /\ response # <<>>
  /\ response[1].route = "GET /api/v1/tasks/:id"
  /\ response[1].envelope.code = 0
  /\ response[1].envelope.status \in Terminal
  /\ tasks[response[1].envelope.taskId[1]].type \in Awaited

Invalid(body) ==
  \/ body.type = NoType
  \/ body.input = NoInput
  \/ body.type \notin TaskTypes
  \/ ~(Required(body.type) \subseteq body.input[1].fields)

\* C28: every task in the map has one of the four types and the inputs its
\* type requires, and a POST /api/v1/tasks whose body lacks the type, the
\* input or a required field, or has another type, answers with a code
\* other than 0 and leaves the map as it is.
C28_ValidTasks ==
  /\ [](\A id \in DOMAIN tasks :
          /\ tasks[id].type \in TaskTypes
          /\ Required(tasks[id].type) \subseteq tasks[id].input.fields)
  /\ [][\A body \in Bodies :
          (Invalid(body) /\ PostTask(body, MaxTasks))
          => tasks' = tasks /\ response'[1].envelope.code # 0]_vars

----------------------------------------------------------------------------
(* Properties of the Storage layer                                         *)

\* The paths the fs calls of an operation work on.
Touched(op) ==
  {op.target} \cup (IF op.kind \in {"copy", "move"} THEN {op.source} ELSE {})

\* C22: no two Storage operations whose fs calls work on a common path, as
\* the target or as the source of a copy or move, are inside their fs calls
\* at the same time.
C22_Serialized ==
  \A o1, o2 \in OpIds :
    (o1 # o2 /\ ops[o1].pc = "inFs" /\ ops[o2].pc = "inFs")
    => Touched(ops[o1]) \cap Touched(ops[o2]) = {}

\* C23: a waiter that finds its path locked when more than the lockTimeout
\* of its Storage object has passed since it began to wait fails with the
\* lock timeout: it makes no fs call and the locks stay as they are.
C23_ConfiguredTimeout ==
  [][\A o \in OpIds :
       (Poll(o) /\ locks[ops[o].target] = 1
          /\ storageNow - ops[o].startTime > LockTimeoutOf(storageOptions))
       => /\ ops'[o].pc = "timedout"
          /\ ops'[o].acquired = 0 /\ ops'[o].released = 0
          /\ locks' = locks]_vars

\* The operations that hold the lock of a path.
Holders(path) == {o \in OpIds : ops[o].pc = "inFs" /\ ops[o].target = path}

OpEnded == {"done", "failed", "timedout"}

\* C30: a path is locked exactly while one operation is inside its fs calls
\* on it; an operation that took the lock has released it once when it has
\* returned or thrown, and one that timed out never took nor released it;
\* and an operation called when every earlier one on its path has returned
\* or thrown takes the lock at once.
C30_NoLeak ==
  /\ [](\A path \in Paths :
          /\ Cardinality(Holders(path)) <= 1
          /\ locks[path] = 1 <=> Holders(path) # {})
  /\ [](\A o \in OpIds :
          /\ ops[o].pc = "inFs" => ops[o].acquired = 1 /\ ops[o].released = 0
          /\ ops[o].pc \in {"done", "failed"}
               => ops[o].acquired = 1 /\ ops[o].released = 1
          /\ ops[o].pc \in {"idle", "waiting", "timedout"}
               => ops[o].acquired = 0 /\ ops[o].released = 0)
  /\ [][\A o \in OpIds, call \in StorageCalls :
          (/\ StorageCall(o, call)
           /\ \A other \in OpIds :
                ops[other].target = call.target => ops[other].pc \in OpEnded)
          => ops'[o].pc = "inFs"]_vars

\* A write whose fs call threw, and the later delete of the same path that
\* took the lock.
C30_Witness ==
  /\ ops[1].kind = "write" /\ ops[1].pc = "failed"
  /\ ops[2].kind = "delete" /\ ops[2].pc = "inFs"
  /\ locks["a"] = 1

----------------------------------------------------------------------------
(* Properties of the commands                                              *)

\* The lines of the command files that are the entry of invocation r with
\* status error.
ErrorEntriesOf(r) ==
  {x \in AllLines :
     /\ x[2] <= Len(commandFiles[x[1]])
     /\ commandFiles[x[1]][x[2]].id = cliHistory[r].entry
     /\ commandFiles[x[1]][x[2]].command = cliHistory[r].command
     /\ commandFiles[x[1]][x[2]].status = "error"}

\* C24: every invocation of a CLI command that failed with a core error
\* has appended exactly one command Log Entry with status error, and has
\* exited with a failure status.
C24_FailureLogged ==
  \A r \in 1..Len(cliHistory) :
    cliHistory[r].failed
    => Cardinality(ErrorEntriesOf(r)) = 1 /\ cliHistory[r].exitCode # 0

----------------------------------------------------------------------------
(* Properties of the suggestions                                           *)

\* How many of the analysed logs are of a command, and how many of those
\* succeeded.
SamplesOf(cmd) ==
  Cardinality({i \in 1..Len(suggestLogs) : suggestLogs[i].command = cmd})

SuccessesOf(cmd) ==
  Cardinality({i \in 1..Len(suggestLogs) :
                 suggestLogs[i].command = cmd
                 /\ suggestLogs[i].status = "success"})

\* The commands with more than 2 samples.
Sampled == {cmd \in LogCommands : SamplesOf(cmd) > 2}

\* The success rate of cmd is at most that of other.
RateAtMost(cmd, other) ==
  SuccessesOf(cmd) * SamplesOf(other) <= SuccessesOf(other) * SamplesOf(cmd)

\* The suggestion names a command with more than 2 samples whose success
\* rate is the lowest among such commands, with that rate.
NamesLowest ==
  /\ suggestion[1].worstCmd \in Sampled
  /\ \A other \in Sampled : RateAtMost(suggestion[1].worstCmd, other)
  /\ RatEq(suggestion[1].worstRate,
           <<SuccessesOf(suggestion[1].worstCmd) * 100,
             SamplesOf(suggestion[1].worstCmd)>>)

\* C25 as stated: whenever at least one command has more than 2 samples in
\* the analysed logs, the worst-command suggestion is emitted for the
\* command with the lowest success rate among the commands with more than
\* 2 samples; a command with 2 or fewer samples is never named.
C25_WorstCommandOriginal ==
  suggestion # <<>>
  => /\ Sampled # {} => NamesLowest
     /\ suggestion[1].worstCmd # "" => suggestion[1].worstCmd \in Sampled

\* C25 as amended: whenever at least one command with more than 2 samples
\* has a success rate below 100%, the worst-command suggestion is emitted
\* for the command with the lowest success rate among the commands with
\* more than 2 samples; where no such command is below 100%, no
\* worst-command suggestion is emitted; a command with 2 or fewer samples
\* is never named.
C25_WorstCommand ==
  suggestion # <<>>
  => /\ IF \E cmd \in Sampled : SuccessesOf(cmd) < SamplesOf(cmd)
        THEN NamesLowest
        ELSE suggestion[1].worstCmd = ""
     /\ suggestion[1].worstCmd # "" => suggestion[1].worstCmd \in Sampled

\* generate is named with 1 success in 3, although evaluate, with 2
\* samples, never succeeded.
C25_Witness ==
  /\ suggestion # <<>>
  /\ suggestion[1].worstCmd = "generate"
  /\ SamplesOf("generate") = 3 /\ SuccessesOf("generate") = 1
  /\ SamplesOf("evaluate") = 2 /\ SuccessesOf("evaluate") = 0

\* The version ids that listPromptVersions returns for the scene now.
ListedIds(scene) ==
  {ListOf(promptDirs, promptFiles, scene)[i].version :
     i \in DOMAIN ListOf(promptDirs, promptFiles, scene)}

\* The file that the listing gives for the id.
ListedFile(scene, id) ==
  LET listing == ListOf(promptDirs, promptFiles, scene)
  IN  listing[CHOOSE i \in DOMAIN listing : listing[i].version = id].file

\* C29: every version id that list returns (of the form 'v<N>', the form the
\* CLI documents) can be passed to download and to get: the call succeeds on
\* the file of that version, the download destination then holds exactly
\* the content of that version, and the version store is unchanged.
C29_ListedIdsResolve ==
  [][\A id \in ListedIds("product/weekly") :
       (\/ getPromptByScene(1, "product/weekly", <<id>>)
        \/ downloadPromptVersion(1, "product/weekly", id)) =>
         /\ versionResult'[1].value.ok
         /\ versionResult'[1].value.file = ListedFile("product/weekly", id)
         /\ versionResult'[1].op = "download" =>
              outputFile' =
                <<promptFiles["product/weekly"]
                             [ListedFile("product/weekly", id)]>>
         /\ <<promptDirs, promptFiles, promptIndex>>' =
              <<promptDirs, promptFiles, promptIndex>>]_vars


====
